---- MODULE Spec2Model ----
(***************************************************************************)
(* A model of the customer service workflow of strands-project:           *)
(*   agents/coordinator-agent.py          CustomerServiceCoordinator      *)
(*   agents/step-handlers/step1_handler   DataCollectorAgent              *)
(*   agents/step-handlers/step2_handler   AnalyzerAgent                   *)
(*   agents/step-handlers/step3_handler   ReporterAgent                   *)
(*   shared/models.py                     enums and helper functions      *)
(*                                                                         *)
(* A text is a sequence of one-character strings, so that str.lower, str.split *)
(* and the substring test `keyword in word` are computed, not assumed.    *)
(* A float that the code computes as a quotient of two small integers is  *)
(* the pair <<numerator, denominator>>; comparisons cross-multiply, which *)
(* is what the correctly rounded IEEE division gives for such operands.   *)
(***************************************************************************)
EXTENDS Integers, Sequences, FiniteSets, TLC

(***************************************************************************)
(* Bounds of the model.                                                    *)
(***************************************************************************)
\* the longest enumerated issue text, in words of Vocabulary
MaxWords == 2
\* how many times one agent instance is called in a row
MaxCalls == 3
\* the most tokens of a text whose classification confidence is an input
MaxTokens == 6
\* the greatest max_attempts a retry wrapper is built with
MaxAttempts == 3

(***************************************************************************)
(* Strings.                                                                *)
(***************************************************************************)
None == "None"

UpperToLower ==
    [A |-> "a", B |-> "b", C |-> "c", D |-> "d", E |-> "e", F |-> "f", G |-> "g",
     H |-> "h", I |-> "i", J |-> "j", K |-> "k", L |-> "l", M |-> "m", N |-> "n",
     O |-> "o", P |-> "p", Q |-> "q", R |-> "r", S |-> "s", T |-> "t", U |-> "u",
     V |-> "v", W |-> "w", X |-> "x", Y |-> "y", Z |-> "z"]

\* str.lower()
lower(s) == [i \in 1..Len(s) |-> IF s[i] \in DOMAIN UpperToLower THEN UpperToLower[s[i]] ELSE s[i]]

Whitespace == {" ", "\t", "\n"}

RECURSIVE split_from(_, _, _, _)
split_from(s, i, cur, acc) ==
    IF i > Len(s)
    THEN IF cur = <<>> THEN acc ELSE Append(acc, cur)
    ELSE IF s[i] \in Whitespace
         THEN split_from(s, i + 1, <<>>, IF cur = <<>> THEN acc ELSE Append(acc, cur))
         ELSE split_from(s, i + 1, Append(cur, s[i]), acc)

\* str.split() without arguments: the maximal runs of non-whitespace characters
split(s) == split_from(s, 1, <<>>, <<>>)

\* `sub in s` of two strings
contains(sub, s) ==
    \E i \in 0..(Len(s) - Len(sub)) : \A j \in 1..Len(sub) : s[i + j] = sub[j]

\* any(keyword in word for keyword in keywords)
any_in(keywords, word) == \E k \in 1..Len(keywords) : contains(keywords[k], word)

\* sum(1 for word in words if any(keyword in word for keyword in keywords))
count_words_matching(words, keywords) ==
    Cardinality({i \in 1..Len(words) : any_in(keywords, words[i])})

\* sum(1 for keyword in keywords if keyword in text)
count_keywords_in(keywords, text) ==
    Cardinality({k \in 1..Len(keywords) : contains(keywords[k], text)})

(***************************************************************************)
(* Floats that are quotients of small integers.                            *)
(***************************************************************************)
FracLess(a, b) == a[1] * b[2] < b[1] * a[2]
FracLeq(a, b) == a[1] * b[2] <= b[1] * a[2]

(***************************************************************************)
(* AnalyzerAgent (step2_handler.py).                                       *)
(***************************************************************************)
billing_keywords ==
    << <<"b","i","l","l">>, <<"c","h","a","r","g","e">>, <<"p","a","y","m","e","n","t">>,
       <<"i","n","v","o","i","c","e">>, <<"r","e","f","u","n","d">>, <<"c","o","s","t">>,
       <<"p","r","i","c","e">> >>

technical_keywords ==
    << <<"e","r","r","o","r">>, <<"b","u","g">>, <<"n","o","t"," ","w","o","r","k","i","n","g">>,
       <<"b","r","o","k","e","n">>, <<"c","r","a","s","h">>, <<"s","l","o","w">>,
       <<"i","s","s","u","e">> >>

account_keywords ==
    << <<"a","c","c","o","u","n","t">>, <<"l","o","g","i","n">>, <<"p","a","s","s","w","o","r","d">>,
       <<"a","c","c","e","s","s">>, <<"p","r","o","f","i","l","e">>,
       <<"s","e","t","t","i","n","g","s">> >>

product_keywords ==
    << <<"f","e","a","t","u","r","e">>, <<"p","r","o","d","u","c","t">>,
       <<"s","e","r","v","i","c","e">>, <<"f","u","n","c","t","i","o","n","a","l","i","t","y">>,
       <<"h","o","w"," ","t","o">>, <<"u","s","a","g","e">> >>

general_keywords ==
    << <<"h","e","l","p">>, <<"s","u","p","p","o","r","t">>, <<"q","u","e","s","t","i","o","n">>,
       <<"i","n","q","u","i","r","y">>, <<"i","n","f","o","r","m","a","t","i","o","n">> >>

\* the keys of the dict `classifications`, in the order they are inserted
category_order == <<"billing", "technical", "account", "product", "general">>

Categories == {category_order[i] : i \in 1..Len(category_order)}

classifications ==
    [billing |-> billing_keywords, technical |-> technical_keywords,
     account |-> account_keywords, product |-> product_keywords,
     general |-> general_keywords]

billing_subcategories ==
    << <<"i","n","v","o","i","c","e">>, <<"p","a","y","m","e","n","t">>, <<"r","e","f","u","n","d">>,
       <<"p","r","i","c","i","n","g">> >>

technical_subcategories ==
    << <<"l","o","g","i","n">>, <<"p","e","r","f","o","r","m","a","n","c","e">>,
       <<"e","r","r","o","r">>, <<"i","n","t","e","g","r","a","t","i","o","n">> >>

account_subcategories ==
    << <<"a","c","c","e","s","s">>, <<"s","e","t","t","i","n","g","s">>,
       <<"p","r","o","f","i","l","e">>, <<"s","e","c","u","r","i","t","y">> >>

product_subcategories ==
    << <<"f","e","a","t","u","r","e","s">>, <<"u","s","a","g","e">>,
       <<"d","o","c","u","m","e","n","t","a","t","i","o","n">>, <<"t","r","a","i","n","i","n","g">> >>

subcategories ==
    [billing |-> billing_subcategories, technical |-> technical_subcategories,
     account |-> account_subcategories, product |-> product_subcategories]

\* the name of a subcategory, as the string the code returns
subcategory_name ==
    [billing |-> <<"invoice", "payment", "refund", "pricing">>,
     technical |-> <<"login", "performance", "error", "integration">>,
     account |-> <<"access", "settings", "profile", "security">>,
     product |-> <<"features", "usage", "documentation", "training">>]

determine_subcategory(category, issue_description) ==
    LET issue_lower == lower(issue_description)
        hits == IF category \in DOMAIN subcategories
                THEN {i \in 1..Len(subcategories[category]) :
                        contains(subcategories[category][i], issue_lower)}
                ELSE {}
    IN  IF hits = {} THEN "general"
        ELSE subcategory_name[category][CHOOSE i \in hits : \A j \in hits : i <= j]

\* the match count left undivided by the number of words
category_confidence_undivided(words, keywords) ==
    <<count_words_matching(words, keywords), 1>>

\* matches / total_words if total_words > 0 else 0.0
category_confidence(words, keywords) ==
    IF Len(words) > 0 THEN <<count_words_matching(words, keywords), Len(words)>> ELSE <<0, 1>>

\* a maximum that keeps the last of several equal items
max_step_last(best, item) == IF FracLeq(best[2], item[2]) THEN item ELSE best

\* one step of max(): a later item replaces the best so far only when its key is greater
max_step(best, item) == IF FracLess(best[2], item[2]) THEN item ELSE best

RECURSIVE max_from(_, _, _)
max_from(items, i, best) ==
    IF i > Len(items) THEN best ELSE max_from(items, i + 1, max_step(best, items[i]))

\* a maximum that falls back to 'general' when no category has a match
max_by_confidence_general_default(items) ==
    IF \A i \in 1..Len(items) : items[i][2][1] = 0
    THEN <<"general", <<0, 1>>>>
    ELSE max_from(items, 2, items[1])

\* max(classifications.items(), key=lambda x: x[1]['confidence'])
max_by_confidence(items) == max_from(items, 2, items[1])

classify_issue(issue_description) ==
    LET issue_lower == lower(issue_description)
        words == split(issue_lower)
        confidence == [cat \in Categories |->
                         category_confidence(words, classifications[cat])]
        items == [i \in 1..Len(category_order) |->
                    <<category_order[i], confidence[category_order[i]]>>]
        best_category == max_by_confidence(items)
    IN  [primary_category |-> best_category[1],
         confidence |-> best_category[2],
         all_scores |-> confidence,
         subcategory |-> determine_subcategory(best_category[1], issue_description)]

\* a dict is a function from its keys; {} is the function with no key
EmptyDict == <<>>

\* d.get(key, default)
Get(d, key, default) == IF key \in DOMAIN d THEN d[key] ELSE default

sla_matrix ==
    [critical |-> [enterprise |-> "1 hour", premium |-> "2 hours", standard |-> "4 hours"],
     high |-> [enterprise |-> "4 hours", premium |-> "8 hours", standard |-> "24 hours"],
     medium |-> [enterprise |-> "8 hours", premium |-> "24 hours", standard |-> "48 hours"],
     low |-> [enterprise |-> "24 hours", premium |-> "48 hours", standard |-> "72 hours"]]

\* the SLA of the lowest row of the matrix as the default of an unknown tier
get_sla_target_row_default(priority_level, customer_tier) ==
    Get(Get(sla_matrix, priority_level, sla_matrix.low), customer_tier, "72 hours")

get_sla_target(priority_level, customer_tier) ==
    Get(Get(sla_matrix, priority_level, EmptyDict), customer_tier, "72 hours")

urgency_keywords ==
    << <<"u","r","g","e","n","t">>, <<"a","s","a","p">>,
       <<"i","m","m","e","d","i","a","t","e","l","y">>, <<"c","r","i","t","i","c","a","l">>,
       <<"e","m","e","r","g","e","n","c","y">>, <<"d","o","w","n">>, <<"b","r","o","k","e","n">> >>

impact_keywords ==
    << <<"r","e","v","e","n","u","e">>, <<"b","u","s","i","n","e","s","s">>,
       <<"p","r","o","d","u","c","t","i","o","n">>, <<"c","u","s","t","o","m","e","r","s">>,
       <<"s","a","l","e","s">>, <<"s","y","s","t","e","m">> >>

\* the weights of premium and enterprise exchanged
tier_factor_exchanged(customer_tier) ==
    IF customer_tier = "enterprise" THEN <<2, "Enterprise customer">>
    ELSE IF customer_tier = "premium" THEN <<3, "Premium customer">>
    ELSE <<1, "Standard customer">>

\* the customer tier factor: <<points, factor>>
tier_factor(customer_tier) ==
    IF customer_tier = "enterprise" THEN <<3, "Enterprise customer">>
    ELSE IF customer_tier = "premium" THEN <<2, "Premium customer">>
    ELSE <<1, "Standard customer">>

\* thresholds that a score must exceed, not reach
priority_level_of_exceeding(priority_score) ==
    IF priority_score > 6 THEN "critical"
    ELSE IF priority_score > 4 THEN "high"
    ELSE IF priority_score > 2 THEN "medium"
    ELSE "low"

\* 'medium' starting at 3 instead of 2
priority_level_of_medium_from_3(priority_score) ==
    IF priority_score >= 6 THEN "critical"
    ELSE IF priority_score >= 4 THEN "high"
    ELSE IF priority_score >= 3 THEN "medium"
    ELSE "low"

\* the priority level of a score
priority_level_of(priority_score) ==
    IF priority_score >= 6 THEN "critical"
    ELSE IF priority_score >= 4 THEN "high"
    ELSE IF priority_score >= 2 THEN "medium"
    ELSE "low"

assess_priority(customer_data, issue_description) ==
    LET profile == Get(customer_data, "profile", EmptyDict)
        customer_tier == Get(profile, "tier", "standard")
        issue_lower == lower(issue_description)
        urgency_matches == count_keywords_in(urgency_keywords, issue_lower)
        impact_matches == count_keywords_in(impact_keywords, issue_lower)
        priority_score == tier_factor(customer_tier)[1] + urgency_matches * 2 + impact_matches
        factors == <<tier_factor(customer_tier)[2]>>
                   \o (IF urgency_matches > 0
                       THEN << <<"Urgency indicators: ", urgency_matches>> >> ELSE <<>>)
                   \o (IF impact_matches > 0
                       THEN << <<"Business impact indicators: ", impact_matches>> >> ELSE <<>>)
        priority_level == priority_level_of(priority_score)
    IN  [level |-> priority_level,
         score |-> priority_score,
         factors |-> factors,
         sla_target |-> get_sla_target(priority_level, customer_tier)]

solutions ==
    [billing |->
        [immediate_actions |-> <<"Review customer billing history",
                                 "Check payment status and methods",
                                 "Verify billing address and information">>,
         resolution_steps |-> <<"Investigate billing discrepancy",
                                "Process refund if applicable",
                                "Update billing preferences">>,
         escalation_criteria |-> "Amount > $500 or legal implications"],
     technical |->
        [immediate_actions |-> <<"Gather system information and error logs",
                                 "Reproduce the issue if possible",
                                 "Check system status and known issues">>,
         resolution_steps |-> <<"Apply standard troubleshooting steps",
                                "Escalate to technical team if needed",
                                "Provide workaround if available">>,
         escalation_criteria |-> "System-wide impact or security concerns"],
     account |->
        [immediate_actions |-> <<"Verify customer identity",
                                 "Check account status and permissions",
                                 "Review recent account activity">>,
         resolution_steps |-> <<"Reset credentials if needed",
                                "Update account settings",
                                "Provide security recommendations">>,
         escalation_criteria |-> "Suspected security breach"],
     product |->
        [immediate_actions |-> <<"Understand specific use case",
                                 "Check product documentation",
                                 "Identify feature limitations">>,
         resolution_steps |-> <<"Provide step-by-step guidance",
                                "Share relevant documentation",
                                "Suggest alternative approaches">>,
         escalation_criteria |-> "Feature request or product limitation"]]

base_times ==
    [billing |-> "2-4 hours", technical |-> "4-8 hours", account |-> "1-2 hours",
     product |-> "2-6 hours", general |-> "2-4 hours"]

estimate_resolution_time(category, customer_tier) ==
    LET base_time == Get(base_times, category, "2-4 hours")
    IN  IF customer_tier \in {"premium", "enterprise"}
        THEN base_time \o " (Priority handling)"
        ELSE base_time

permissions ==
    [billing |-> <<"billing_read", "billing_write", "refund_process">>,
     technical |-> <<"system_access", "log_access", "escalation_create">>,
     account |-> <<"account_read", "account_write", "security_reset">>,
     product |-> <<"documentation_access", "feature_info">>,
     general |-> <<"basic_support">>]

get_required_permissions(category) == Get(permissions, category, <<"basic_support">>)

\* the customisation for every tier but standard
customize_for_tier_not_standard(solution, customer_tier) ==
    IF customer_tier # "standard"
    THEN [immediate_actions |->
              <<"Assign dedicated support representative">> \o solution.immediate_actions,
          resolution_steps |-> solution.resolution_steps,
          escalation_criteria |-> solution.escalation_criteria,
          additional_benefits |-> <<"Priority handling", "Direct escalation path">>]
    ELSE solution

\* the tier customisation of the chosen template
customize_for_tier(solution, customer_tier) ==
    IF customer_tier \in {"premium", "enterprise"}
    THEN [immediate_actions |->
              <<"Assign dedicated support representative">> \o solution.immediate_actions,
          resolution_steps |-> solution.resolution_steps,
          escalation_criteria |-> solution.escalation_criteria,
          additional_benefits |-> <<"Priority handling", "Direct escalation path">>]
    ELSE solution

\* recommend_solution from `solution = solutions.get(...)` on, on the dict that
\* `solutions` is bound to: `returned` is the dict it returns, `templates` that
\* dict afterwards, the chosen template customised in place
recommend_solution_on(templates, classification, customer_data) ==
    LET category == Get(classification, "primary_category", "general")
        subcategory == Get(classification, "subcategory", "general")
        key == IF category \in DOMAIN templates THEN category ELSE "product"
        profile == Get(customer_data, "profile", EmptyDict)
        customer_tier == Get(profile, "tier", "standard")
        solution == customize_for_tier(templates[key], customer_tier)
    IN  [returned |->
             [category |-> category,
              subcategory |-> subcategory,
              solution_template |-> solution,
              estimated_resolution_time |-> estimate_resolution_time(category, customer_tier),
              required_permissions |-> get_required_permissions(category)],
         templates |-> (key :> solution) @@ templates]

\* `solutions` is a local of the call: every call starts from the literal table
recommend_solution(classification, customer_data) ==
    recommend_solution_on(solutions, classification, customer_data).returned

positive_words ==
    << <<"g","o","o","d">>, <<"g","r","e","a","t">>, <<"e","x","c","e","l","l","e","n","t">>,
       <<"h","a","p","p","y">>, <<"s","a","t","i","s","f","i","e","d">>, <<"l","o","v","e">>,
       <<"p","e","r","f","e","c","t">>, <<"a","m","a","z","i","n","g">> >>

negative_words ==
    << <<"b","a","d">>, <<"t","e","r","r","i","b","l","e">>, <<"a","w","f","u","l">>,
       <<"h","a","t","e">>, <<"a","n","g","r","y">>, <<"f","r","u","s","t","r","a","t","e","d">>,
       <<"d","i","s","a","p","p","o","i","n","t","e","d">>, <<"b","r","o","k","e","n">> >>

neutral_words ==
    << <<"o","k","a","y">>, <<"f","i","n","e">>, <<"n","o","r","m","a","l">>,
       <<"s","t","a","n","d","a","r","d">>, <<"r","e","g","u","l","a","r">> >>

\* no sentiment word: the quotient 0 of the counts instead of 0.5
sentiment_of_counts_zero(positive_count, negative_count, neutral_count) ==
    LET total_sentiment_words == positive_count + negative_count + neutral_count
    IN  IF total_sentiment_words = 0
        THEN <<"neutral", <<0, 1>>>>
        ELSE IF negative_count > positive_count
             THEN <<"negative", <<negative_count, total_sentiment_words>>>>
        ELSE IF positive_count > negative_count
             THEN <<"positive", <<positive_count, total_sentiment_words>>>>
        ELSE <<"neutral", IF neutral_count > 0
                          THEN <<neutral_count, total_sentiment_words>>
                          ELSE <<1, 2>>>>

\* a tie of the positive and negative counts decided for positive
sentiment_of_counts_tie_positive(positive_count, negative_count, neutral_count) ==
    LET total_sentiment_words == positive_count + negative_count + neutral_count
    IN  IF total_sentiment_words = 0
        THEN <<"neutral", <<1, 2>>>>
        ELSE IF negative_count > positive_count
             THEN <<"negative", <<negative_count, total_sentiment_words>>>>
        ELSE IF positive_count >= negative_count /\ positive_count > 0
             THEN <<"positive", <<positive_count, total_sentiment_words>>>>
        ELSE <<"neutral", IF neutral_count > 0
                          THEN <<neutral_count, total_sentiment_words>>
                          ELSE <<1, 2>>>>

\* the sentiment and its confidence, from the three counts
sentiment_of_counts(positive_count, negative_count, neutral_count) ==
    LET total_sentiment_words == positive_count + negative_count + neutral_count
    IN  IF total_sentiment_words = 0
        THEN <<"neutral", <<1, 2>>>>
        ELSE IF negative_count > positive_count
             THEN <<"negative", <<negative_count, total_sentiment_words>>>>
        ELSE IF positive_count > negative_count
             THEN <<"positive", <<positive_count, total_sentiment_words>>>>
        ELSE <<"neutral", IF neutral_count > 0
                          THEN <<neutral_count, total_sentiment_words>>
                          ELSE <<1, 2>>>>

analyze_sentiment(text) ==
    LET text_lower == lower(text)
        words == split(text_lower)
        positive_count == count_words_matching(words, positive_words)
        negative_count == count_words_matching(words, negative_words)
        neutral_count == count_words_matching(words, neutral_words)
        sc == sentiment_of_counts(positive_count, negative_count, neutral_count)
    IN  [sentiment |-> sc[1],
         confidence |-> IF FracLess(<<1, 1>>, sc[2]) THEN <<1, 1>> ELSE sc[2],
         word_counts |-> [positive |-> positive_count,
                          negative |-> negative_count,
                          neutral |-> neutral_count],
         urgency_level |-> IF negative_count > 2 THEN "high" ELSE "normal"]

\* round(n / d, 2) in hundredths. A tie is rounded to the even neighbour: the ties
\* that quotients of this model produce (odd multiples of 1/8) are exact floats.
round2(n, d) ==
    LET q == (n * 100) \div d
        r == (n * 100) % d
    IN  IF 2 * r < d THEN q
        ELSE IF 2 * r > d THEN q + 1
        ELSE IF q % 2 = 0 THEN q ELSE q + 1

\* the share of the priority factors left without its cap of 1.0
calculate_confidence_uncapped(classification, priority) ==
    LET class_confidence == Get(classification, "confidence", <<0, 1>>)
        priority_factors == Len(Get(priority, "factors", <<>>))
    IN  <<round2(class_confidence[1] * 3 + priority_factors * class_confidence[2],
                 6 * class_confidence[2]), 100>>

calculate_confidence(classification, priority) ==
    LET class_confidence == Get(classification, "confidence", <<0, 1>>)
        priority_factors == Len(Get(priority, "factors", <<>>))
        capped == IF priority_factors > 3 THEN 3 ELSE priority_factors
    IN  \* (class_confidence + min(priority_factors / 3, 1.0)) / 2
        <<round2(class_confidence[1] * 3 + capped * class_confidence[2],
                 6 * class_confidence[2]), 100>>

(***************************************************************************)
(* ReporterAgent (step3_handler.py).                                       *)
(***************************************************************************)
LowerToUpper ==
    [a |-> "A", b |-> "B", c |-> "C", d |-> "D", e |-> "E", f |-> "F", g |-> "G",
     h |-> "H", i |-> "I", j |-> "J", k |-> "K", l |-> "L", m |-> "M", n |-> "N",
     o |-> "O", p |-> "P", q |-> "Q", r |-> "R", s |-> "S", t |-> "T", u |-> "U",
     v |-> "V", w |-> "W", x |-> "X", y |-> "Y", z |-> "Z"]

\* str.title() left as it is: the tier is interpolated in lower case
title_unchanged(s) == s

\* str.title(): a letter that follows no letter is upper-cased, any other lower-cased
title(s) ==
    [i \in 1..Len(s) |->
        IF i = 1 \/ s[i - 1] \notin (DOMAIN LowerToUpper \cup DOMAIN UpperToLower)
        THEN IF s[i] \in DOMAIN LowerToUpper THEN LowerToUpper[s[i]] ELSE s[i]
        ELSE IF s[i] \in DOMAIN UpperToLower THEN UpperToLower[s[i]] ELSE s[i]]

text_of ==
    ("1 hour" :> <<"1"," ","h","o","u","r">>)
    @@ ("2 hours" :> <<"2"," ","h","o","u","r","s">>)
    @@ ("4 hours" :> <<"4"," ","h","o","u","r","s">>)
    @@ ("8 hours" :> <<"8"," ","h","o","u","r","s">>)
    @@ ("24 hours" :> <<"2","4"," ","h","o","u","r","s">>)
    @@ ("48 hours" :> <<"4","8"," ","h","o","u","r","s">>)
    @@ ("72 hours" :> <<"7","2"," ","h","o","u","r","s">>)
    @@ ("standard" :> <<"s","t","a","n","d","a","r","d">>)
    @@ ("premium" :> <<"p","r","e","m","i","u","m">>)
    @@ ("enterprise" :> <<"e","n","t","e","r","p","r","i","s","e">>)
    @@ ("gold" :> <<"g","o","l","d">>)
    @@ ("C1" :> <<"C","1">>)
    @@ ("C-1" :> <<"C","-","1">>)

apology ==
    <<"I"," ","s","i","n","c","e","r","e","l","y"," ","a","p","o","l","o","g","i","z","e"," ","f",
      "o","r"," ","t","h","e"," ","i","n","c","o","n","v","e","n","i","e","n","c","e"," ","y","o",
      "u","'","v","e"," ","e","x","p","e","r","i","e","n","c","e","d","."," ">>

dear_valued ==
    <<"D","e","a","r"," ","V","a","l","u","e","d"," ">>

customer_comma ==
    <<" ","C","u","s","t","o","m","e","r",","," ">>

as_a ==
    <<"A","s"," ","a"," ">>

customer_comma_lower ==
    <<" ","c","u","s","t","o","m","e","r",","," ">>

sla_time_field ==
    <<"{","s","l","a","_","t","i","m","e","}">>
response_templates ==
    [
     billing |-> [
       greeting |->
         <<"T","h","a","n","k"," ","y","o","u"," ","f","o","r"," ","c","o","n","t","a","c","t","i",
           "n","g"," ","u","s"," ","r","e","g","a","r","d","i","n","g"," ","y","o","u","r"," ","b",
           "i","l","l","i","n","g"," ","i","n","q","u","i","r","y",".">>,
       acknowledgment |->
         <<"I","'","v","e"," ","r","e","v","i","e","w","e","d"," ","y","o","u","r"," ","a","c","c",
           "o","u","n","t"," ","a","n","d"," ","u","n","d","e","r","s","t","a","n","d"," ","y","o",
           "u","r"," ","c","o","n","c","e","r","n"," ","a","b","o","u","t"," ","t","h","e"," ","b",
           "i","l","l","i","n","g"," ","i","s","s","u","e",".">>,
       action |->
         <<"I","'","m"," ","w","o","r","k","i","n","g"," ","t","o"," ","r","e","s","o","l","v","e",
           " ","t","h","i","s"," ","m","a","t","t","e","r"," ","p","r","o","m","p","t","l","y"," ",
           "a","n","d"," ","w","i","l","l"," ","e","n","s","u","r","e"," ","a","n","y"," ","n","e",
           "c","e","s","s","a","r","y"," ","a","d","j","u","s","t","m","e","n","t","s"," ","a","r",
           "e"," ","m","a","d","e",".">>,
       next_steps |->
         <<"Y","o","u"," ","c","a","n"," ","e","x","p","e","c","t"," ","a"," ","r","e","s","o","l",
           "u","t","i","o","n"," ","w","i","t","h","i","n"," ","{","s","l","a","_","t","i","m","e",
           "}",","," ","a","n","d"," ","I","'","l","l"," ","k","e","e","p"," ","y","o","u"," ","u",
           "p","d","a","t","e","d"," ","o","n"," ","o","u","r"," ","p","r","o","g","r","e","s","s",
           ".">>],
     technical |-> [
       greeting |->
         <<"T","h","a","n","k"," ","y","o","u"," ","f","o","r"," ","r","e","p","o","r","t","i","n",
           "g"," ","t","h","i","s"," ","t","e","c","h","n","i","c","a","l"," ","i","s","s","u","e",
           ".">>,
       acknowledgment |->
         <<"I"," ","u","n","d","e","r","s","t","a","n","d"," ","h","o","w"," ","f","r","u","s","t",
           "r","a","t","i","n","g"," ","t","e","c","h","n","i","c","a","l"," ","p","r","o","b","l",
           "e","m","s"," ","c","a","n"," ","b","e",","," ","a","n","d"," ","I","'","m"," ","h","e",
           "r","e"," ","t","o"," ","h","e","l","p",".">>,
       action |->
         <<"I","'","v","e"," ","i","n","i","t","i","a","t","e","d"," ","o","u","r"," ","t","r","o",
           "u","b","l","e","s","h","o","o","t","i","n","g"," ","p","r","o","c","e","s","s"," ","a",
           "n","d"," ","a","m"," ","w","o","r","k","i","n","g"," ","w","i","t","h"," ","o","u","r",
           " ","t","e","c","h","n","i","c","a","l"," ","t","e","a","m"," ","t","o"," ","i","d","e",
           "n","t","i","f","y"," ","t","h","e"," ","r","o","o","t"," ","c","a","u","s","e",".">>,
       next_steps |->
         <<"I","'","l","l"," ","p","r","o","v","i","d","e"," ","y","o","u"," ","w","i","t","h"," ",
           "a"," ","s","o","l","u","t","i","o","n"," ","o","r"," ","w","o","r","k","a","r","o","u",
           "n","d"," ","w","i","t","h","i","n"," ","{","s","l","a","_","t","i","m","e","}",".">>],
     account |-> [
       greeting |->
         <<"T","h","a","n","k"," ","y","o","u"," ","f","o","r"," ","c","o","n","t","a","c","t","i",
           "n","g"," ","u","s"," ","a","b","o","u","t"," ","y","o","u","r"," ","a","c","c","o","u",
           "n","t",".">>,
       acknowledgment |->
         <<"I","'","v","e"," ","r","e","v","i","e","w","e","d"," ","y","o","u","r"," ","a","c","c",
           "o","u","n","t"," ","s","t","a","t","u","s"," ","a","n","d"," ","u","n","d","e","r","s",
           "t","a","n","d"," ","y","o","u","r"," ","c","o","n","c","e","r","n",".">>,
       action |->
         <<"I","'","m"," ","t","a","k","i","n","g"," ","i","m","m","e","d","i","a","t","e"," ","s",
           "t","e","p","s"," ","t","o"," ","a","d","d","r","e","s","s"," ","y","o","u","r"," ","a",
           "c","c","o","u","n","t","-","r","e","l","a","t","e","d"," ","i","s","s","u","e",".">>,
       next_steps |->
         <<"Y","o","u","r"," ","a","c","c","o","u","n","t"," ","i","s","s","u","e"," ","w","i","l",
           "l"," ","b","e"," ","r","e","s","o","l","v","e","d"," ","w","i","t","h","i","n"," ","{",
           "s","l","a","_","t","i","m","e","}",".">>],
     product |-> [
       greeting |->
         <<"T","h","a","n","k"," ","y","o","u"," ","f","o","r"," ","y","o","u","r"," ","p","r","o",
           "d","u","c","t"," ","i","n","q","u","i","r","y",".">>,
       acknowledgment |->
         <<"I"," ","u","n","d","e","r","s","t","a","n","d"," ","y","o","u"," ","n","e","e","d"," ",
           "a","s","s","i","s","t","a","n","c","e"," ","w","i","t","h"," ","o","u","r"," ","p","r",
           "o","d","u","c","t"," ","f","e","a","t","u","r","e","s",".">>,
       action |->
         <<"I","'","m"," ","g","a","t","h","e","r","i","n","g"," ","t","h","e"," ","r","e","l","e",
           "v","a","n","t"," ","i","n","f","o","r","m","a","t","i","o","n"," ","a","n","d"," ","r",
           "e","s","o","u","r","c","e","s"," ","t","o"," ","h","e","l","p"," ","y","o","u"," ","a",
           "c","h","i","e","v","e"," ","y","o","u","r"," ","g","o","a","l","s",".">>,
       next_steps |->
         <<"I","'","l","l"," ","p","r","o","v","i","d","e"," ","y","o","u"," ","w","i","t","h"," ",
           "d","e","t","a","i","l","e","d"," ","g","u","i","d","a","n","c","e"," ","w","i","t","h",
           "i","n"," ","{","s","l","a","_","t","i","m","e","}",".">>]]

\* the index of the first field {sla_time} of s, 0 if there is none
field_index(s) ==
    LET starts == {i \in 1..(Len(s) - Len(sla_time_field) + 1) :
                      \A j \in 1..Len(sla_time_field) : s[i + j - 1] = sla_time_field[j]}
    IN  IF starts = {} THEN 0 ELSE CHOOSE i \in starts : \A k \in starts : i <= k

RECURSIVE format(_, _)
\* the template text left with its field {sla_time} unfilled
format_unfilled(s, sla_time) == s

\* s.format(sla_time=sla_time): every field {sla_time} of s replaced by the value
format(s, sla_time) ==
    LET i == field_index(s)
    IN  IF i = 0 THEN s
        ELSE SubSeq(s, 1, i - 1) \o sla_time
                 \o format(SubSeq(s, i + Len(sla_time_field), Len(s)), sla_time)

\* the apology put in front for a negative sentiment of confidence 0.7 and more
sentiment_customized_from_07(template, sentiment) ==
    IF /\ Get(sentiment, "sentiment", None) = "negative"
       /\ FracLeq(<<7, 10>>, Get(sentiment, "confidence", <<0, 1>>))
    THEN [template EXCEPT !.acknowledgment = apology \o template.acknowledgment]
    ELSE template

\* the template after `# Customize based on sentiment`
sentiment_customized(template, sentiment) ==
    IF /\ Get(sentiment, "sentiment", None) = "negative"
       /\ FracLess(<<7, 10>>, Get(sentiment, "confidence", <<0, 1>>))
    THEN [template EXCEPT !.acknowledgment = apology \o template.acknowledgment]
    ELSE template

\* the template after `# Customize based on customer tier`
tier_customized(template, customer_tier) ==
    IF customer_tier \in {"premium", "enterprise"}
    THEN [template EXCEPT
             !.greeting = dear_valued \o title(text_of[customer_tier]) \o customer_comma
                              \o template.greeting,
             !.next_steps = as_a \o text_of[customer_tier] \o customer_comma_lower
                                \o lower(template.next_steps)]
    ELSE template

\* generate_customer_response from `template = response_templates.get(...)` on,
\* on the dict that `response_templates` is bound to: `returned` is the dict it
\* returns, `templates` that dict afterwards, the chosen template customised in place
generate_customer_response_on(templates, analysis, customer_data) ==
    LET issue_classification == Get(analysis, "issue_classification", EmptyDict)
        priority == Get(analysis, "priority", EmptyDict)
        sentiment == Get(analysis, "sentiment", EmptyDict)
        category == Get(issue_classification, "primary_category", "general")
        priority_level == Get(priority, "level", "medium")
        customer_tier == Get(Get(customer_data, "profile", EmptyDict), "tier", "standard")
        sla_time == Get(priority, "sla_target", "24 hours")
        key == IF category \in DOMAIN templates THEN category ELSE "product"
        template ==
            tier_customized(sentiment_customized(templates[key], sentiment), customer_tier)
    IN  [returned |->
             [response_text |->
                  template.greeting \o <<" ">> \o template.acknowledgment \o <<" ">>
                      \o template.action \o <<" ">>
                      \o format(template.next_steps, text_of[sla_time]),
              category |-> category,
              priority_level |-> priority_level,
              sla_commitment |-> sla_time,
              personalization_applied |-> TRUE,
              sentiment_adjusted |-> Get(sentiment, "sentiment", None) = "negative"],
         templates |-> (key :> template) @@ templates]

\* `response_templates` is a local of the call: every call starts from the literal
generate_customer_response(analysis, customer_data) ==
    generate_customer_response_on(response_templates, analysis, customer_data).returned

\* human intervention for low confidence only
requires_human_intervention_low_confidence(analysis) ==
    FracLess(Get(analysis, "confidence_score", <<0, 1>>), <<6, 10>>)

requires_human_intervention(analysis) ==
    LET priority_level == Get(Get(analysis, "priority", EmptyDict), "level", "medium")
        confidence_score == Get(analysis, "confidence_score", <<0, 1>>)
    IN  priority_level = "critical" \/ FracLess(confidence_score, <<6, 10>>)

\* random.randint(5, 30) in calculate_processing_time: its least and greatest value
ProcessingSeconds == {5, 30}

create_internal_report(analysis, customer_data, customer_response, processing_seconds) ==
    LET profile == Get(customer_data, "profile", EmptyDict)
        issue_classification == Get(analysis, "issue_classification", EmptyDict)
        priority == Get(analysis, "priority", EmptyDict)
        recommended_solution == Get(analysis, "recommended_solution", EmptyDict)
    IN  [report_id |-> "RPT_utcnow",
         timestamp |-> "utcnow",
         customer_info |-> [customer_id |-> Get(profile, "customer_id", None),
                            tier |-> Get(profile, "tier", None),
                            status |-> Get(profile, "status", None)],
         issue_analysis |->
             [category |-> Get(issue_classification, "primary_category", None),
              subcategory |-> Get(issue_classification, "subcategory", None),
              priority |-> Get(priority, "level", None),
              confidence_score |-> Get(analysis, "confidence_score", None),
              sentiment |-> Get(Get(analysis, "sentiment", EmptyDict), "sentiment", None)],
         resolution_info |->
             [sla_target |-> Get(priority, "sla_target", None),
              estimated_resolution |->
                  Get(recommended_solution, "estimated_resolution_time", None),
              required_permissions |-> Get(recommended_solution, "required_permissions", <<>>),
              escalation_criteria |->
                  Get(Get(recommended_solution, "solution_template", EmptyDict),
                      "escalation_criteria", None)],
         response_details |->
             [response_category |-> Get(customer_response, "category", None),
              personalization_applied |->
                  Get(customer_response, "personalization_applied", None),
              sentiment_adjusted |-> Get(customer_response, "sentiment_adjusted", None)],
         metrics |-> [processing_time |-> <<processing_seconds, " seconds">>,
                      automation_level |-> "full",
                      human_intervention_required |-> requires_human_intervention(analysis)]]

\* what a call of an external collaborator does: it returns or it raises
CallOutcomes == {"ok", "exception"}

\* store_results that gives up at the first failed write
store_results_first_failure_ends(customer_id, report, response, s3_outcome, dynamodb_outcome) ==
    LET location == "s3://customer-service-documents/reports/" \o customer_id \o "/"
                        \o report.report_id \o ".json"
    IN  IF s3_outcome = "exception"
        THEN [returned |-> [s3_storage |-> [success |-> FALSE, location |-> None],
                            dynamodb_storage |-> [success |-> FALSE, table |-> None],
                            errors |-> <<"S3 storage failed">>],
              calls |-> <<[call |-> "s3.put_object", outcome |-> s3_outcome]>>]
        ELSE [returned |->
                  [s3_storage |-> [success |-> TRUE, location |-> location],
                   dynamodb_storage |->
                       IF dynamodb_outcome = "ok"
                       THEN [success |-> TRUE, table |-> "interaction-summaries"]
                       ELSE [success |-> FALSE, table |-> None],
                   errors |-> IF dynamodb_outcome = "ok" THEN <<>>
                              ELSE <<"DynamoDB storage failed">>],
              calls |-> <<[call |-> "s3.put_object", outcome |-> s3_outcome],
                          [call |-> "dynamodb.put_item", outcome |-> dynamodb_outcome]>>]

\* store_results: `returned` is the dict it returns, `calls` the writes it attempted
store_results(customer_id, report, response, s3_outcome, dynamodb_outcome) ==
    LET location == "s3://customer-service-documents/reports/" \o customer_id \o "/"
                        \o report.report_id \o ".json"
        s3_storage == IF s3_outcome = "ok"
                      THEN [success |-> TRUE, location |-> location]
                      ELSE [success |-> FALSE, location |-> None]
        s3_errors == IF s3_outcome = "ok" THEN <<>> ELSE <<"S3 storage failed">>
        summary_item == [customer_id |-> customer_id,
                         report_id |-> report.report_id,
                         timestamp |-> report.timestamp,
                         category |-> report.issue_analysis.category,
                         priority |-> report.issue_analysis.priority,
                         status |-> "completed",
                         sla_target |-> report.resolution_info.sla_target,
                         s3_location |-> s3_storage.location]
        dynamodb_storage == IF dynamodb_outcome = "ok"
                            THEN [success |-> TRUE, table |-> "interaction-summaries"]
                            ELSE [success |-> FALSE, table |-> None]
        dynamodb_errors == IF dynamodb_outcome = "ok" THEN <<>>
                           ELSE <<"DynamoDB storage failed">>
    IN  [returned |-> [s3_storage |-> s3_storage,
                       dynamodb_storage |-> dynamodb_storage,
                       errors |-> s3_errors \o dynamodb_errors],
         calls |-> <<[call |-> "s3.put_object", outcome |-> s3_outcome],
                     [call |-> "dynamodb.put_item", outcome |-> dynamodb_outcome,
                      item |-> summary_item]>>]

\* one try block of send_notifications: the entry appended to `sent` or to `failed`
notification(type, recipient, message, outcome) ==
    IF outcome = "ok"
    THEN [sent |-> <<[type |-> type, recipient |-> recipient,
                      result |-> [status |-> "sent", message |-> message,
                                  timestamp |-> "utcnow"]]>>,
          failed |-> <<>>]
    ELSE [sent |-> <<>>,
          failed |-> <<[type |-> type, error |-> "send failed"]>>]

\* send_notifications that alerts the management for 'critical' only
send_notifications_critical_only(analysis, customer_id, outcomes) ==
    LET priority_level == Get(Get(analysis, "priority", EmptyDict), "level", "medium")
        category == Get(Get(analysis, "issue_classification", EmptyDict),
                        "primary_category", "general")
        nothing == [sent |-> <<>>, failed |-> <<>>]
        management ==
            IF priority_level = "critical"
            THEN notification("management_alert", "support-management@company.com",
                              "High priority " \o category \o " issue for customer "
                                  \o customer_id,
                              outcomes.management)
            ELSE nothing
        technical ==
            IF category = "technical"
            THEN notification("technical_team_alert", "technical-team@company.com",
                              "Technical issue reported by customer " \o customer_id,
                              outcomes.technical)
            ELSE nothing
        confirmation ==
            notification("customer_confirmation", "customer_" \o customer_id,
                         "Support request received and being processed",
                         outcomes.confirmation)
    IN  [returned |-> [sent |-> management.sent \o technical.sent \o confirmation.sent,
                       failed |-> management.failed \o technical.failed
                                      \o confirmation.failed,
                       skipped |-> <<>>],
         calls |->
             (IF priority_level = "critical"
              THEN <<[call |-> "send_management_notification",
                      outcome |-> outcomes.management]>>
              ELSE <<>>)
             \o (IF category = "technical"
                 THEN <<[call |-> "send_technical_notification",
                         outcome |-> outcomes.technical]>>
                 ELSE <<>>)
             \o <<[call |-> "send_customer_confirmation",
                   outcome |-> outcomes.confirmation]>>]

\* send_notifications: `returned` is the dict it returns, `calls` the sends it attempted
send_notifications(analysis, customer_id, outcomes) ==
    LET priority_level == Get(Get(analysis, "priority", EmptyDict), "level", "medium")
        category == Get(Get(analysis, "issue_classification", EmptyDict),
                        "primary_category", "general")
        nothing == [sent |-> <<>>, failed |-> <<>>]
        management ==
            IF priority_level \in {"critical", "high"}
            THEN notification("management_alert", "support-management@company.com",
                              "High priority " \o category \o " issue for customer "
                                  \o customer_id,
                              outcomes.management)
            ELSE nothing
        technical ==
            IF category = "technical"
            THEN notification("technical_team_alert", "technical-team@company.com",
                              "Technical issue reported by customer " \o customer_id,
                              outcomes.technical)
            ELSE nothing
        confirmation ==
            notification("customer_confirmation", "customer_" \o customer_id,
                         "Support request received and being processed",
                         outcomes.confirmation)
    IN  [returned |-> [sent |-> management.sent \o technical.sent \o confirmation.sent,
                       failed |-> management.failed \o technical.failed
                                      \o confirmation.failed,
                       skipped |-> <<>>],
         calls |->
             (IF priority_level \in {"critical", "high"}
              THEN <<[call |-> "send_management_notification",
                      outcome |-> outcomes.management]>>
              ELSE <<>>)
             \o (IF category = "technical"
                 THEN <<[call |-> "send_technical_notification",
                         outcome |-> outcomes.technical]>>
                 ELSE <<>>)
             \o <<[call |-> "send_customer_confirmation",
                   outcome |-> outcomes.confirmation]>>]

\* what the collaborators of one run of the reporter do
ReporterOutcomes ==
    [s3 : CallOutcomes, dynamodb : CallOutcomes, management : CallOutcomes,
     technical : CallOutcomes, confirmation : CallOutcomes,
     processing_seconds : ProcessingSeconds]

\* ReporterAgent.execute: `returned` is the dict it returns, `calls` the calls of
\* the collaborators it made, in order
ReporterAgent_execute(ctx, outcomes) ==
    LET analysis == Get(ctx, "analysis", EmptyDict)
        customer_data == Get(ctx, "data", EmptyDict)
        customer_id == Get(ctx, "customer_id", None)
        customer_response == generate_customer_response(analysis, customer_data)
        internal_report == create_internal_report(analysis, customer_data, customer_response,
                                                  outcomes.processing_seconds)
        storage_results == store_results(customer_id, internal_report, customer_response,
                                         outcomes.s3, outcomes.dynamodb)
        notifications == send_notifications(analysis, customer_id, outcomes)
    IN  [returned |-> [step |-> "reporting",
                       customer_id |-> customer_id,
                       outputs |-> [customer_response |-> customer_response,
                                    internal_report |-> internal_report,
                                    storage_results |-> storage_results.returned,
                                    notifications |-> notifications.returned],
                       status |-> "completed"],
         calls |-> storage_results.calls \o notifications.calls]

(***************************************************************************)
(* Inputs.                                                                 *)
(***************************************************************************)
\* words that hit every keyword list, some of them several lists at once
Vocabulary ==
    << <<"m","y">>,
       <<"I","n","v","o","i","c","e","s",",">>,
       <<"r","e","f","u","n","d">>,
       <<"e","r","r","o","r">>,
       <<"b","r","o","k","e","n">>,
       <<"U","R","G","E","N","T">>,
       <<"s","y","s","t","e","m">>,
       <<"g","r","e","a","t">>,
       <<"o","k","a","y">>,
       <<"a","c","c","o","u","n","t">>,
       <<"s","e","r","v","i","c","e">>,
       <<"h","e","l","p">> >>

RECURSIVE join_words(_, _)
\* the words ws[i], ws[i+1], ... of Vocabulary, separated by single blanks
join_words(ws, i) ==
    IF i > Len(ws) THEN <<>>
    ELSE IF i = Len(ws) THEN Vocabulary[ws[i]]
    ELSE Vocabulary[ws[i]] \o <<" ">> \o join_words(ws, i + 1)

\* the counts of the code do not depend on the order of the words: a text of
\* Vocabulary words is enumerated once per multiset of words
WordLists ==
    {ws \in UNION {[1..n -> 1..Len(Vocabulary)] : n \in 0..MaxWords} :
        \A i \in 1..(Len(ws) - 1) : ws[i] <= ws[i + 1]}

Scenario == <<"m","y"," ","i","n","v","o","i","c","e"," ","c","h","a","r","g","e"," ","i","s"," ","w","r","o","n","g",","," ","u","r","g","e","n","t">>

SpecialTexts ==
    { Scenario,
      <<" "," ","B","I","L","L"," "," "," ","n","o","t"," ","w","o","r","k","i","n","g"," ">>,
      <<"u","r","g","e","n","t","\n","a","s","a","p"," ","d","o","w","n">>,
      <<"g","o","o","d"," ","b","a","d"," ","s","t","a","n","d","a","r","d">>,
      <<"h","o","w"," ","t","o">> }

Texts == {join_words(ws, 1) : ws \in WordLists} \cup SpecialTexts

\* texts for the reporter: the empty text, a negative sentiment of confidence exactly
\* 0.7 and of 2/3, a critical priority with a confidence score of 0.7, a confidence
\* score of exactly 0.6
ReporterSpecialTexts ==
    { <<>>,
      <<"b","a","d"," ","b","a","d"," ","b","a","d"," ","b","a","d"," ","b","a","d"," ","b","a","d",
        " ","b","a","d"," ","g","o","o","d"," ","g","o","o","d"," ","g","o","o","d">>,
      <<"b","r","o","k","e","n"," ","g","r","e","a","t"," ","b","r","o","k","e","n">>,
      <<"b","r","o","k","e","n"," ","e","r","r","o","r"," ","u","r","g","e","n","t"," ","d","o","w",
        "n"," ","s","y","s","t","e","m">>,
      <<"u","r","g","e","n","t"," ","s","y","s","t","e","m"," ","b","u","g"," ","i","s"," ","i","t">> }

\* the issue texts of the runs that go on to the reporter
ReporterTexts ==
    SpecialTexts \cup ReporterSpecialTexts \cup {Vocabulary[i] : i \in 1..Len(Vocabulary)}

CustomerIds == {"C1"}

\* the customer ids of the requests to the coordinator: a well-formed and a malformed one
RequestCustomerIds == CustomerIds \cup {"C-1"}

\* the tier attribute of a stored profile item
StoredTiers == {"standard", "premium", "enterprise", "gold"}

(***************************************************************************)
(* CustomerServiceCoordinator (coordinator-agent.py).                      *)
(***************************************************************************)
Coordinator_billing_words ==
    << <<"b","i","l","l">>, <<"c","h","a","r","g","e">>, <<"p","a","y","m","e","n","t">>,
       <<"i","n","v","o","i","c","e">> >>

Coordinator_technical_words ==
    << <<"e","r","r","o","r">>, <<"b","u","g">>,
       <<"n","o","t"," ","w","o","r","k","i","n","g">>, <<"b","r","o","k","e","n">> >>

\* CustomerServiceCoordinator.classify_issue: the first list with a word in the text
Coordinator_classify_issue(issue) ==
    LET issue_lower == lower(issue)
    IN  IF any_in(Coordinator_billing_words, issue_lower) THEN "billing"
        ELSE IF any_in(Coordinator_technical_words, issue_lower) THEN "technical"
        ELSE "general"

determine_priority(customer_data, issue) ==
    LET profile == Get(customer_data, "profile", EmptyDict)
        customer_tier == Get(profile, "tier", "standard")
        issue_lower == lower(issue)
    IN  IF customer_tier = "premium" \/ contains(<<"u","r","g","e","n","t">>, issue_lower)
        THEN "high"
        ELSE IF \/ contains(<<"a","s","a","p">>, issue_lower)
                \/ contains(<<"i","m","m","e","d","i","a","t","e","l","y">>, issue_lower)
        THEN "medium"
        ELSE "low"

suggest_actions(issue) ==
    LET issue_lower == lower(issue)
    IN  <<"Log issue in system", "Send acknowledgment to customer">>
    \o (IF contains(<<"b","i","l","l","i","n","g">>, issue_lower)
        THEN <<"Review billing history", "Check payment status">>
        ELSE IF contains(<<"t","e","c","h","n","i","c","a","l">>, issue_lower)
        THEN <<"Run diagnostic checks", "Escalate to technical team if needed">>
        ELSE <<>>)

\* table.get_item in query_customer: an item, no item, or an exception
query_customer(customer_id, outcome) ==
    IF outcome.kind = "item"
    THEN [customer_id |-> customer_id, name |-> "Ada", tier |-> outcome.tier,
          status |-> "active", created_date |-> "2023-05-01"]
    ELSE IF outcome.kind = "missing"
    THEN [error |-> "Customer not found"]
    ELSE [error |-> "Database error"]

\* r.get of the session key: a cached value, nothing, or an exception
SessionCacheOutcomes == {"hit", "miss", "exception"}

collect_customer_data(customer_id, profile_outcome, session_outcome) ==
    [profile |-> query_customer(customer_id, profile_outcome),
     session |-> IF session_outcome = "hit" THEN [last_page |-> "billing"] ELSE EmptyDict,
     timestamp |-> "utcnow"]

analyze_customer_issue(customer_data, issue) ==
    [issue_type |-> Coordinator_classify_issue(issue),
     priority |-> determine_priority(customer_data, issue),
     suggested_actions |-> suggest_actions(issue),
     confidence |-> <<85, 100>>]

Coordinator_response_templates ==
    [billing |->
       <<"T","h","a","n","k"," ","y","o","u"," ","f","o","r"," ","c","o","n","t","a","c","t","i","n",
         "g"," ","u","s"," ","a","b","o","u","t"," ","y","o","u","r"," ","b","i","l","l","i","n","g",
         " ","i","n","q","u","i","r","y","."," ","I","'","v","e"," ","r","e","v","i","e","w","e","d",
         " ","y","o","u","r"," ","a","c","c","o","u","n","t"," ","a","n","d"," ","c","a","n"," ","h",
         "e","l","p"," ","r","e","s","o","l","v","e"," ","t","h","i","s"," ","i","s","s","u","e",".">>,
     technical |->
       <<"I"," ","u","n","d","e","r","s","t","a","n","d"," ","y","o","u","'","r","e"," ","e","x","p",
         "e","r","i","e","n","c","i","n","g"," ","t","e","c","h","n","i","c","a","l"," ","d","i","f",
         "f","i","c","u","l","t","i","e","s","."," ","L","e","t"," ","m","e"," ","w","a","l","k"," ",
         "y","o","u"," ","t","h","r","o","u","g","h"," ","t","h","e"," ","s","o","l","u","t","i","o",
         "n",".">>,
     general |->
       <<"T","h","a","n","k"," ","y","o","u"," ","f","o","r"," ","r","e","a","c","h","i","n","g"," ",
         "o","u","t","."," ","I","'","m"," ","h","e","r","e"," ","t","o"," ","h","e","l","p"," ","w",
         "i","t","h"," ","y","o","u","r"," ","i","n","q","u","i","r","y",".">>]

urgent_prefix ==
    <<"U","R","G","E","N","T",":"," ">>

prioritizing_suffix ==
    <<" ","I","'","m"," ","p","r","i","o","r","i","t","i","z","i","n","g"," ","y","o","u","r"," ",
      "r","e","q","u","e","s","t"," ","f","o","r"," ","i","m","m","e","d","i","a","t","e"," ","r",
      "e","s","o","l","u","t","i","o","n",".">>

Coordinator_generate_customer_response(an) ==
    LET issue_type == Get(an, "issue_type", "general")
        priority == Get(an, "priority", "medium")
        base_response == Get(Coordinator_response_templates, issue_type,
                             Coordinator_response_templates.general)
    IN  IF priority = "high"
        THEN urgent_prefix \o base_response \o prioritizing_suffix
        ELSE base_response

\* a run that returns without storing the interaction
after_returns_early(stage) ==
    CASE stage = "collect" -> "analyze"
      [] stage = "analyze" -> "respond"
      [] stage = "respond" -> "return"
      [] stage = "store" -> "return"
      [] stage = "return" -> "done"

\* the awaits of process_customer_request, in program order
after(stage) ==
    CASE stage = "collect" -> "analyze"
      [] stage = "analyze" -> "respond"
      [] stage = "respond" -> "store"
      [] stage = "store" -> "return"
      [] stage = "return" -> "done"

(***************************************************************************)
(* shared/models.py.                                                       *)
(***************************************************************************)
\* an Enum class: member name |-> value
Priority == [LOW |-> "low", MEDIUM |-> "medium", HIGH |-> "high", CRITICAL |-> "critical"]

CustomerTier == [STANDARD |-> "standard", PREMIUM |-> "premium", ENTERPRISE |-> "enterprise"]

ValueError == [raised |-> "ValueError"]

\* EnumClass(value): the member with that value, or ValueError
enum_by_value(enum_name, enum, value) ==
    IF \E m \in DOMAIN enum : enum[m] = value
    THEN [enum |-> enum_name, name |-> CHOOSE m \in DOMAIN enum : enum[m] = value]
    ELSE ValueError

models_sla_matrix ==
    [CRITICAL |-> [ENTERPRISE |-> "1 hour", PREMIUM |-> "2 hours", STANDARD |-> "4 hours"],
     HIGH |-> [ENTERPRISE |-> "4 hours", PREMIUM |-> "8 hours", STANDARD |-> "24 hours"],
     MEDIUM |-> [ENTERPRISE |-> "8 hours", PREMIUM |-> "24 hours", STANDARD |-> "48 hours"],
     LOW |-> [ENTERPRISE |-> "24 hours", PREMIUM |-> "48 hours", STANDARD |-> "72 hours"]]

\* a key of the matrix is a member of the enum, never its value
member_key(enum_name, member) ==
    IF "enum" \in DOMAIN member /\ member.enum = enum_name THEN member.name ELSE "no such key"

determine_sla_target(priority, tier) ==
    Get(Get(models_sla_matrix, member_key("Priority", priority), EmptyDict),
        member_key("CustomerTier", tier), "72 hours")

\* CustomerProfile.to_dict with the tier serialized as the name of the member
to_dict_member_name(self) ==
    [customer_id |-> self.customer_id,
     name |-> self.name,
     tier |-> self.tier.name,
     status |-> self.status,
     created_date |-> self.created_date,
     email |-> self.email,
     phone |-> self.phone,
     preferences |-> self.preferences]

\* CustomerProfile.to_dict; self.tier.value is the value of the member
to_dict(self) ==
    [customer_id |-> self.customer_id,
     name |-> self.name,
     tier |-> CustomerTier[self.tier.name],
     status |-> self.status,
     created_date |-> self.created_date,
     email |-> self.email,
     phone |-> self.phone,
     preferences |-> self.preferences]

KeyError == [raised |-> "KeyError"]

\* CustomerProfile.from_dict: data[key] raises KeyError for a missing key,
\* CustomerTier(value) raises ValueError for a value of no member
from_dict(data) ==
    IF ~({"customer_id", "name", "tier", "status", "created_date"} \subseteq DOMAIN data)
    THEN KeyError
    ELSE LET tier == enum_by_value("CustomerTier", CustomerTier, data.tier)
         IN  IF tier = ValueError THEN ValueError
             ELSE [customer_id |-> data.customer_id,
                   name |-> data.name,
                   tier |-> tier,
                   status |-> data.status,
                   created_date |-> data.created_date,
                   email |-> Get(data, "email", None),
                   phone |-> Get(data, "phone", None),
                   preferences |-> Get(data, "preferences", EmptyDict)]

Alphanumeric ==
    DOMAIN LowerToUpper \cup DOMAIN UpperToLower
        \cup {"0", "1", "2", "3", "4", "5", "6", "7", "8", "9"}

\* validate_customer_id, of a str: len(customer_id) > 0 and customer_id.isalnum()
validate_customer_id(customer_id) ==
    Len(customer_id) > 0 /\ \A i \in 1..Len(customer_id) : customer_id[i] \in Alphanumeric

\* validate_customer_tier: CustomerTier(tier) does not raise
validate_customer_tier(tier) == enum_by_value("CustomerTier", CustomerTier, tier) # ValueError

\* calculate_confidence_score: round((classification_confidence + priority_confidence) / 2, 2)
calculate_confidence_score(classification_confidence, priority_factors) ==
    LET \* min(priority_factors / 3, 1.0), in thirds
        priority_confidence == IF priority_factors < 3 THEN priority_factors ELSE 3
    IN  <<round2(classification_confidence[1] * 3
                     + priority_confidence * classification_confidence[2],
                 3 * classification_confidence[2] * 2), 100>>

(***************************************************************************)
(* State.                                                                  *)
(***************************************************************************)
VARIABLES
    \* the step handlers
    context,        \* the context dict the step handlers are executed with
    step_results,   \* the outputs of the handlers executed so far, in order
    effects,        \* history: the calls the reporter made to S3, DynamoDB and the
                    \* notification sink, each with what became of it
    \* one run of CustomerServiceCoordinator.process_customer_request
    request,        \* the request dict
    pc,             \* the await the coroutine is at, "done" or "raised"
    locals,         \* the local variables assigned so far
    result,         \* the returned dict; no key before the return
    error,          \* the exception the coroutine ended with, "" if none
    stages_run,     \* history: the stages that ran, with what became of each
    documents,      \* the objects store_document has put
    \* direct calls of the helper functions
    sla_input,      \* the (priority level, tier) strings of the SLA lookups
    sla_results,    \* the results of the SLA lookups called so far
    solution_call,  \* the last call of recommend_solution: arguments and result
    calls,          \* how many times recommend_solution was called
    \* direct calls of the functions of shared/models.py
    models_call,    \* the last call: the function, its arguments, what it returned
    \* the cache helpers of shared/utils.py
    aws_manager,    \* the AWSServiceManager instance: the endpoint and its _redis
    redis_server,   \* the keys of the Redis server, each with its text and its TTL
    cache_call,     \* the last call: the function, its arguments, what became of it
    \* one call of retry_with_backoff
    retry,          \* its arguments, its loop variables and the history of its
                    \* calls of func and of time.sleep
    \* workflow runs in progress at the same time
    runs,           \* of every run: its workflow, its await, its context and locals
    heap            \* the template dicts the calls of the runs have built

vars == <<context, step_results, effects, request, pc, locals, result, error, stages_run,
          documents, sla_input, sla_results, solution_call, calls, models_call,
          aws_manager, redis_server, cache_call, retry, runs, heap>>

handler_vars == <<context, step_results, effects>>
coordinator_vars == <<request, pc, locals, result, error, stages_run, documents>>
tool_vars == <<sla_input, sla_results, solution_call, calls>>
models_vars == <<models_call>>
cache_vars == <<aws_manager, redis_server, cache_call>>
utils_vars == <<cache_vars, retry>>
concurrent_vars == <<runs, heap>>

(***************************************************************************)
(* DataCollectorAgent (step1_handler.py).                                  *)
(***************************************************************************)
default_profile(customer_id) ==
    [customer_id |-> customer_id, name |-> "Unknown Customer", tier |-> "standard",
     status |-> "active", created_date |-> "2024-01-01"]

\* what table.get_item does: an item, no item, or an exception
ProfileStoreOutcomes ==
    {[kind |-> "item", tier |-> t] : t \in StoredTiers}
        \cup {[kind |-> "missing"], [kind |-> "exception"]}

get_customer_profile(customer_id, outcome) ==
    IF outcome.kind = "item"
    THEN [customer_id |-> customer_id, name |-> "Ada", tier |-> outcome.tier,
          status |-> "active", created_date |-> "2023-05-01"]
    ELSE IF outcome.kind = "missing"
    THEN default_profile(customer_id)
    ELSE [error |-> "Profile retrieval failed"]

HistoryStoreOutcomes == {"empty", "exception"}

get_interaction_history(customer_id, outcome) ==
    IF outcome = "exception" THEN <<[error |-> "History retrieval failed"]>> ELSE <<>>

default_preferences ==
    [communication_channel |-> "email", language |-> "en", timezone |-> "UTC",
     notification_frequency |-> "normal"]

PreferencesStoreOutcomes == {"missing", "exception"}

get_customer_preferences(customer_id, outcome) ==
    IF outcome = "exception" THEN [error |-> "Preferences retrieval failed"]
    ELSE default_preferences

\* `not profile[field]`: None and the empty string are false
validate_customer_data(customer_data) ==
    LET required_fields == <<"customer_id", "name", "tier", "status">>
        profile == Get(customer_data, "profile", EmptyDict)
        missing == {i \in 1..Len(required_fields) :
                       \/ required_fields[i] \notin DOMAIN profile
                       \/ profile[required_fields[i]] \in {None, ""}}
        RECURSIVE fields_from(_)
        fields_from(i) ==
            IF i > Len(required_fields) THEN <<>>
            ELSE (IF i \in missing THEN <<required_fields[i]>> ELSE <<>>)
                     \o fields_from(i + 1)
    IN  [is_valid |-> missing = {},
         missing_fields |-> fields_from(1),
         warnings |->
             (IF Get(profile, "tier", None) \notin {"standard", "premium", "enterprise"}
              THEN <<"Invalid customer tier">> ELSE <<>>)
             \o (IF Get(profile, "status", None) \notin {"active", "inactive", "suspended"}
                 THEN <<"Invalid customer status">> ELSE <<>>)]

DataCollectorAgent_execute(ctx, profile_outcome, history_outcome, preferences_outcome) ==
    LET customer_id == Get(ctx, "customer_id", None)
    IN  [step |-> "data_collection",
         customer_id |-> customer_id,
         data |-> [profile |-> get_customer_profile(customer_id, profile_outcome),
                   history |-> get_interaction_history(customer_id, history_outcome),
                   preferences |-> get_customer_preferences(customer_id, preferences_outcome)],
         status |-> "completed"]

AnalyzerAgent_execute(ctx) ==
    LET customer_data == Get(ctx, "data", EmptyDict)
        issue_description == Get(ctx, "issue_description", <<>>)
        issue_classification == classify_issue(issue_description)
        priority_assessment == assess_priority(customer_data, issue_description)
        solution_recommendation == recommend_solution(issue_classification, customer_data)
        sentiment_analysis == analyze_sentiment(issue_description)
    IN  [step |-> "analysis",
         customer_id |-> Get(ctx, "customer_id", None),
         analysis |-> [issue_classification |-> issue_classification,
                       priority |-> priority_assessment,
                       recommended_solution |-> solution_recommendation,
                       sentiment |-> sentiment_analysis,
                       confidence_score |->
                           calculate_confidence(issue_classification, priority_assessment)],
         status |-> "completed"]


(***************************************************************************)
(* The values the variables of an idle component hold.                     *)
(***************************************************************************)
HandlersIdle == context = EmptyDict /\ step_results = <<>> /\ effects = <<>>

CoordinatorIdle ==
    /\ request = EmptyDict
    /\ pc = "idle"
    /\ locals = EmptyDict
    /\ result = EmptyDict
    /\ error = ""
    /\ stages_run = <<>>
    /\ documents = <<>>

ToolsIdle ==
    /\ sla_input = EmptyDict
    /\ sla_results = EmptyDict
    /\ solution_call = EmptyDict
    /\ calls = 0

ModelsIdle == models_call = EmptyDict

CacheIdle == aws_manager = EmptyDict /\ redis_server = EmptyDict /\ cache_call = EmptyDict

UtilsIdle == CacheIdle /\ retry = EmptyDict

ConcurrentIdle == runs = EmptyDict /\ heap = EmptyDict

(***************************************************************************)
(* The step handlers, executed in order on one context: each handler reads *)
(* from the context the key the previous handler's output carries.         *)
(***************************************************************************)
Init ==
    /\ context \in {[customer_id |-> c, issue_description |-> t] :
                        c \in CustomerIds, t \in Texts}
    /\ step_results = <<>>
    /\ effects = <<>>
    /\ CoordinatorIdle
    /\ ToolsIdle
    /\ ModelsIdle
    /\ UtilsIdle
    /\ ConcurrentIdle

DataCollectorExecute ==
    /\ Len(step_results) = 0
    /\ \E po \in ProfileStoreOutcomes, ho \in HistoryStoreOutcomes,
          fo \in PreferencesStoreOutcomes :
         LET out == DataCollectorAgent_execute(context, po, ho, fo)
         IN  /\ step_results' = Append(step_results, out)
             /\ context' = [data |-> out.data] @@ context
    /\ effects' = effects
    /\ UNCHANGED <<coordinator_vars, tool_vars, models_vars, utils_vars,
                 concurrent_vars>>

\* the reporter has been executed
Reported == \E i \in 1..Len(step_results) : step_results[i].step = "reporting"

\* an analysis that empties the collected history it was given
AnalyzerExecute_history_cleared ==
    /\ Len(step_results) = 1
    /\ ~Reported
    /\ LET out == AnalyzerAgent_execute(context)
       IN  /\ step_results' = Append(step_results, out)
           /\ context' = [analysis |-> out.analysis,
                          data |-> [context.data EXCEPT !.history = <<>>]] @@ context
    /\ effects' = effects
    /\ UNCHANGED <<coordinator_vars, tool_vars, models_vars, utils_vars,
                 concurrent_vars>>

AnalyzerExecute ==
    /\ Len(step_results) = 1
    /\ ~Reported
    /\ LET out == AnalyzerAgent_execute(context)
       IN  /\ step_results' = Append(step_results, out)
           /\ context' = [analysis |-> out.analysis] @@ context
    /\ effects' = effects
    /\ UNCHANGED <<coordinator_vars, tool_vars, models_vars, utils_vars,
                 concurrent_vars>>

Next == DataCollectorExecute \/ AnalyzerExecute

Spec == Init /\ [][Next]_vars

(***************************************************************************)
(* The three step handlers. The reporter ends a run; it reads every key of *)
(* the context with a default, so it can also be executed on a context     *)
(* that an earlier handler has not filled.                                 *)
(***************************************************************************)
InitReporter ==
    /\ context \in {[customer_id |-> c, issue_description |-> t] :
                        c \in CustomerIds, t \in ReporterTexts}
    /\ step_results = <<>>
    /\ effects = <<>>
    /\ CoordinatorIdle
    /\ ToolsIdle
    /\ ModelsIdle
    /\ UtilsIdle
    /\ ConcurrentIdle

ReporterExecute ==
    /\ ~Reported
    /\ \E outcomes \in ReporterOutcomes :
         LET out == ReporterAgent_execute(context, outcomes)
         IN  /\ step_results' = Append(step_results, out.returned)
             /\ effects' = effects \o out.calls
    /\ context' = context
    /\ UNCHANGED <<coordinator_vars, tool_vars, models_vars, utils_vars,
                 concurrent_vars>>

NextReporter == DataCollectorExecute \/ AnalyzerExecute \/ ReporterExecute

SpecReporter == InitReporter /\ [][NextReporter]_vars

(***************************************************************************)
(* CustomerServiceCoordinator.process_customer_request: one step per       *)
(* awaited stage, then the return.                                         *)
(***************************************************************************)
\* request.get('issue_description') is None when the key is missing
Requests ==
    {[customer_id |-> c, issue_description |-> t] : c \in RequestCustomerIds, t \in Texts}
        \cup {[customer_id |-> c] : c \in CustomerIds}

InitCoordinator ==
    /\ request \in Requests
    /\ pc = "collect"
    /\ locals = request
    /\ result = EmptyDict
    /\ error = ""
    /\ stages_run = <<>>
    /\ documents = <<>>
    /\ HandlersIdle
    /\ ToolsIdle
    /\ ModelsIdle
    /\ UtilsIdle
    /\ ConcurrentIdle

ran(stage, outcome) == Append(stages_run, [stage |-> stage, outcome |-> outcome])

CollectCustomerData ==
    /\ pc = "collect"
    /\ \E po \in ProfileStoreOutcomes, so \in SessionCacheOutcomes :
         /\ locals' = [customer_data |->
                          collect_customer_data(locals.customer_id, po, so)] @@ locals
         /\ stages_run' = Append(stages_run,
                                 [stage |-> "collect",
                                  outcome |-> IF po.kind = "exception" THEN "store failed"
                                              ELSE "ok",
                                  store |-> po.kind])
    /\ pc' = after(pc)
    /\ UNCHANGED <<request, result, error, documents, handler_vars, tool_vars, models_vars, utils_vars,
                 concurrent_vars>>

\* issue.lower() raises AttributeError when the issue is None
AnalyzeCustomerIssue ==
    /\ pc = "analyze"
    /\ IF "issue_description" \in DOMAIN locals
       THEN /\ locals' = [analysis |-> analyze_customer_issue(locals.customer_data,
                                           locals.issue_description)] @@ locals
            /\ stages_run' = ran("analyze", "ok")
            /\ pc' = after(pc)
            /\ error' = error
       ELSE /\ stages_run' = ran("analyze", "raised")
            /\ pc' = "raised"
            /\ error' = "AttributeError"
            /\ locals' = locals
    /\ UNCHANGED <<request, result, documents, handler_vars, tool_vars, models_vars, utils_vars,
                 concurrent_vars>>

GenerateCustomerResponse ==
    /\ pc = "respond"
    /\ locals' = [response |-> Coordinator_generate_customer_response(locals.analysis)]
                     @@ locals
    /\ stages_run' = ran("respond", "ok")
    /\ pc' = after(pc)
    /\ UNCHANGED <<request, result, error, documents, handler_vars, tool_vars, models_vars, utils_vars,
                 concurrent_vars>>

\* store_document catches the exception of put_object; store_interaction_history
\* returns True either way
StoreInteractionHistory ==
    /\ pc = "store"
    /\ \E put \in {"stored", "exception"} :
         /\ documents' =
               IF put = "stored"
               THEN Append(documents,
                           [key |-> <<"docs/interaction_", locals.customer_id, "utcnow">>,
                            body |-> [customer_id |-> locals.customer_id,
                                      timestamp |-> "utcnow",
                                      request |-> request,
                                      response |-> locals.response]])
               ELSE documents
         /\ stages_run' = ran("store", IF put = "exception" THEN "store failed" ELSE "ok")
    /\ pc' = after(pc)
    /\ UNCHANGED <<request, locals, result, error, handler_vars, tool_vars, models_vars, utils_vars,
                 concurrent_vars>>

Return ==
    /\ pc = "return"
    /\ result' = [customer_id |-> locals.customer_id,
                  status |-> "completed",
                  response |-> locals.response,
                  analysis |-> locals.analysis]
    /\ pc' = after(pc)
    /\ UNCHANGED <<request, locals, error, stages_run, documents, handler_vars, tool_vars, models_vars, utils_vars,
                 concurrent_vars>>

NextCoordinator ==
    \/ CollectCustomerData
    \/ AnalyzeCustomerIssue
    \/ GenerateCustomerResponse
    \/ StoreInteractionHistory
    \/ Return

SpecCoordinator == InitCoordinator /\ [][NextCoordinator]_vars

(***************************************************************************)
(* Direct calls of get_sla_target, determine_sla_target and                *)
(* recommend_solution, the last one any number of times on one agent.      *)
(***************************************************************************)
PriorityLevelInputs == {"critical", "high", "medium", "low", "urgent", "CRITICAL"}

TierInputs == {"standard", "premium", "enterprise", "gold", "Enterprise", ""}

CategoryInputs == Categories \cup {"shipping"}

InitTools ==
    /\ sla_input \in {[priority_level |-> l, customer_tier |-> t] :
                          l \in PriorityLevelInputs, t \in TierInputs}
    /\ sla_results = EmptyDict
    /\ solution_call = EmptyDict
    /\ calls = 0
    /\ HandlersIdle
    /\ CoordinatorIdle
    /\ ModelsIdle
    /\ UtilsIdle
    /\ ConcurrentIdle

CallGetSlaTarget ==
    /\ "agent" \notin DOMAIN sla_results
    /\ sla_results' = [agent |-> get_sla_target(sla_input.priority_level,
                                                sla_input.customer_tier)] @@ sla_results
    /\ UNCHANGED <<sla_input, solution_call, calls, handler_vars, coordinator_vars, models_vars, utils_vars,
                 concurrent_vars>>

\* the caller turns the strings into enum members first: Priority(level), CustomerTier(tier)
CallDetermineSlaTarget ==
    /\ "models" \notin DOMAIN sla_results
    /\ LET priority == enum_by_value("Priority", Priority, sla_input.priority_level)
           tier == enum_by_value("CustomerTier", CustomerTier, sla_input.customer_tier)
       IN  sla_results' =
               [models |-> IF priority = ValueError \/ tier = ValueError
                           THEN "ValueError"
                           ELSE determine_sla_target(priority, tier)] @@ sla_results
    /\ UNCHANGED <<sla_input, solution_call, calls, handler_vars, coordinator_vars, models_vars, utils_vars,
                 concurrent_vars>>

CallRecommendSolution ==
    /\ calls < MaxCalls
    /\ \E category \in CategoryInputs, tier \in TierInputs \cup {None} :
         LET classification == [primary_category |-> category, subcategory |-> "general"]
             customer_data == [profile |-> IF tier = None THEN [error |-> "Profile retrieval failed"]
                                           ELSE [customer_id |-> "C1", tier |-> tier]]
         IN  solution_call' = [classification |-> classification,
                               customer_data |-> customer_data,
                               returned |-> recommend_solution(classification, customer_data)]
    /\ calls' = calls + 1
    /\ UNCHANGED <<sla_input, sla_results, handler_vars, coordinator_vars, models_vars, utils_vars,
                 concurrent_vars>>

NextTools == CallGetSlaTarget \/ CallDetermineSlaTarget \/ CallRecommendSolution

SpecTools == InitTools /\ [][NextTools]_vars

(***************************************************************************)
(* Direct calls of the functions of shared/models.py, and of the method of *)
(* an agent that computes the same thing.                                  *)
(***************************************************************************)
\* the classification confidences a text of up to MaxTokens tokens can get
ConfidenceInputs == {c \in (0..MaxTokens) \X (1..MaxTokens) : c[1] <= c[2]}

\* the factor lists assess_priority builds, and one that is longer
FactorLists ==
    {SubSeq(<<"Enterprise customer", "Urgency indicators: 1",
              "Business impact indicators: 1", "Repeated contact">>, 1, n) : n \in 0..4}

InitModels ==
    /\ models_call = EmptyDict
    /\ HandlersIdle
    /\ CoordinatorIdle
    /\ ToolsIdle
    /\ UtilsIdle
    /\ ConcurrentIdle

\* the same classification confidence and factor list given to
\* AnalyzerAgent.calculate_confidence and to models.calculate_confidence_score
CallCalculateConfidence ==
    /\ \E confidence \in ConfidenceInputs, factors \in FactorLists :
         LET classification == [primary_category |-> "billing", confidence |-> confidence]
             priority == [level |-> "medium", factors |-> factors]
         IN  models_call' =
                 [function |-> "calculate_confidence",
                  classification |-> classification,
                  priority |-> priority,
                  agent |-> calculate_confidence(classification, priority),
                  models |-> calculate_confidence_score(confidence, Len(factors))]
    /\ UNCHANGED <<handler_vars, coordinator_vars, tool_vars, utils_vars,
                 concurrent_vars>>

\* the instances of CustomerProfile: every tier, with and without the optional fields
ProfileInputs ==
    [customer_id : CustomerIds, name : {"Ada"},
     tier : {[enum |-> "CustomerTier", name |-> n] : n \in DOMAIN CustomerTier},
     status : {"active", "suspended"}, created_date : {"2023-05-01"},
     email : {None, "ada@example.com"}, phone : {None, "555-0100"},
     preferences : {[language |-> "en"], [language |-> "de", timezone |-> "UTC"]}]
        \cup [customer_id : CustomerIds, name : {"Ada"},
              tier : {[enum |-> "CustomerTier", name |-> n] : n \in DOMAIN CustomerTier},
              status : {"active"}, created_date : {"2023-05-01"},
              email : {None}, phone : {None}, preferences : {EmptyDict}]

\* CustomerProfile.from_dict(p.to_dict())
CallRoundTrip ==
    /\ \E p \in ProfileInputs :
         models_call' = [function |-> "from_dict(to_dict)",
                         profile |-> p,
                         dict |-> to_dict(p),
                         returned |-> from_dict(to_dict(p))]
    /\ UNCHANGED <<handler_vars, coordinator_vars, tool_vars, utils_vars,
                 concurrent_vars>>

\* a profile dict with the given tier, handed to each validation of the repository
CallValidate ==
    /\ \E customer_id \in RequestCustomerIds, tier \in TierInputs :
         LET data == [customer_id |-> customer_id, name |-> "Ada", tier |-> tier,
                      status |-> "active", created_date |-> "2023-05-01"]
         IN  models_call' =
                 [function |-> "validate",
                  data |-> data,
                  validate_customer_id |-> validate_customer_id(text_of[customer_id]),
                  validate_customer_tier |-> validate_customer_tier(tier),
                  from_dict |-> from_dict(data),
                  validate_customer_data |-> validate_customer_data([profile |-> data])]
    /\ UNCHANGED <<handler_vars, coordinator_vars, tool_vars, utils_vars,
                 concurrent_vars>>

NextModels == CallCalculateConfidence \/ CallRoundTrip \/ CallValidate

SpecModels == InitModels /\ [][NextModels]_vars

(***************************************************************************)
(* Two workflow runs in progress at the same time. A run is one call of    *)
(* process_customer_request or one pass of a context through the three     *)
(* step handlers; it is suspended at an await and resumed from there, and  *)
(* between two awaits of one run the other run may be resumed any number   *)
(* of times. The dict displays of recommend_solution and of                *)
(* generate_customer_response are objects of the heap, and every store     *)
(* answers, as the failures of the stores are the subject of the other     *)
(* specifications.                                                         *)
(***************************************************************************)
ConcurrentRunIds == {1, 2}

\* the customer of each run
ConcurrentCustomers == <<"C1", "C2">>

\* a billing request with an urgency keyword and a technical one in negative words
ConcurrentTexts == {Scenario, Vocabulary[5]}

ConcurrentTiers == {"standard", "premium", "enterprise"}

Workflows == {"handlers", "coordinator"}

\* the awaits of the three execute methods, in program order
DataCollectorAwaits ==
    <<"get_customer_profile", "get_interaction_history", "get_customer_preferences">>
AnalyzerAwaits ==
    <<"classify_issue", "assess_priority", "recommend_solution", "analyze_sentiment">>
ReporterAwaits ==
    <<"generate_customer_response", "create_internal_report", "store_results",
      "send_notifications">>
HandlersAwaits == DataCollectorAwaits \o AnalyzerAwaits \o ReporterAwaits

\* the awaits of process_customer_request and its return
CoordinatorAwaits == <<"collect", "analyze", "respond", "store", "return">>

InSeq(x, seq) == \E i \in 1..Len(seq) : seq[i] = x

\* the await after `at`, "done" after the last one
next_await(awaits, at) ==
    LET i == CHOOSE j \in 1..Len(awaits) : awaits[j] = at
    IN  IF i < Len(awaits) THEN awaits[i + 1] ELSE "done"

\* the answers of the stores of a run whose profile item has the given tier
concurrent_profile_outcome(tier) == [kind |-> "item", tier |-> tier]
concurrent_reporter_outcomes ==
    [s3 |-> "ok", dynamodb |-> "ok", management |-> "ok", technical |-> "ok",
     confirmation |-> "ok", processing_seconds |-> 5]

\* a dict built once, when the module is loaded, and bound again by every call
module_dict(run, function) == [run |-> 0, function |-> function]

\* the object a dict display creates: a new dict at every evaluation, that is
\* one for each call of the function by each run
new_dict(run, function) == [run |-> run, function |-> function]

\* the content of a dict when a call starts to use it: the literal of the display
\* for a dict that did not exist before
dict_content(object, literal) ==
    IF object \in DOMAIN heap THEN heap[object].content ELSE literal

\* the heap resumed a call of the run has used the dict and left it with the content
heap_after(object, content, run) ==
    (object :> [content |-> content,
                used_by |-> (IF object \in DOMAIN heap THEN heap[object].used_by ELSE {})
                                \cup {run}])
        @@ heap

InitConcurrent ==
    /\ runs \in [ConcurrentRunIds ->
                    {[workflow |-> w, tier |-> t,
                      pc |-> IF w = "handlers" THEN HandlersAwaits[1]
                             ELSE CoordinatorAwaits[1],
                      context |-> [customer_id |-> c, issue_description |-> d],
                      frame |-> EmptyDict,
                      step_results |-> <<>>] :
                        w \in Workflows, t \in ConcurrentTiers, d \in ConcurrentTexts,
                        c \in {ConcurrentCustomers[i] : i \in 1..Len(ConcurrentCustomers)}}]
    /\ \A r \in ConcurrentRunIds : runs[r].context.customer_id = ConcurrentCustomers[r]
    /\ heap = EmptyDict
    /\ HandlersIdle
    /\ CoordinatorIdle
    /\ ToolsIdle
    /\ ModelsIdle
    /\ UtilsIdle

\* DataCollectorAgent.execute, resumed at one of its awaits
ResumeDataCollector ==
    \E r \in DOMAIN runs :
    /\ runs[r].workflow = "handlers"
    /\ InSeq(runs[r].pc, DataCollectorAwaits)
    /\ LET run == runs[r]
           customer_id == Get(run.context, "customer_id", None)
           resumed == [run EXCEPT !.pc = next_await(HandlersAwaits, run.pc)]
           preferences == get_customer_preferences(customer_id, "missing")
           returned == [step |-> "data_collection",
                        customer_id |-> customer_id,
                        data |-> [profile |-> run.frame.customer_profile,
                                  history |-> run.frame.interaction_history,
                                  preferences |-> preferences],
                        status |-> "completed"]
       IN  runs' = [runs EXCEPT ![r] =
             IF run.pc = "get_customer_profile"
             THEN [resumed EXCEPT !.frame =
                      [customer_profile |->
                          get_customer_profile(customer_id,
                                               concurrent_profile_outcome(run.tier))]]
             ELSE IF run.pc = "get_interaction_history"
             THEN [resumed EXCEPT !.frame =
                      [interaction_history |-> get_interaction_history(customer_id, "empty")]
                          @@ run.frame]
             ELSE [resumed EXCEPT !.frame = EmptyDict,
                                !.step_results = Append(run.step_results, returned),
                                !.context = [data |-> returned.data] @@ run.context]]
    /\ heap' = heap
    /\ UNCHANGED <<handler_vars, coordinator_vars, tool_vars, models_vars, utils_vars>>

\* AnalyzerAgent.execute, resumed at one of its awaits
ResumeAnalyzer ==
    \E r \in DOMAIN runs :
    /\ runs[r].workflow = "handlers"
    /\ InSeq(runs[r].pc, AnalyzerAwaits)
    /\ LET run == runs[r]
           customer_data == Get(run.context, "data", EmptyDict)
           issue_description == Get(run.context, "issue_description", <<>>)
           resumed == [run EXCEPT !.pc = next_await(HandlersAwaits, run.pc)]
           solutions_object == new_dict(r, "recommend_solution")
           recommended == recommend_solution_on(dict_content(solutions_object, solutions),
                                                run.frame.issue_classification,
                                                customer_data)
           returned == [step |-> "analysis",
                        customer_id |-> Get(run.context, "customer_id", None),
                        analysis |->
                            [issue_classification |-> run.frame.issue_classification,
                             priority |-> run.frame.priority_assessment,
                             recommended_solution |-> run.frame.solution_recommendation,
                             sentiment |-> analyze_sentiment(issue_description),
                             confidence_score |->
                                 calculate_confidence(run.frame.issue_classification,
                                                      run.frame.priority_assessment)],
                        status |-> "completed"]
       IN  IF run.pc = "recommend_solution"
           THEN /\ runs' = [runs EXCEPT ![r] =
                     [resumed EXCEPT !.frame =
                         [solution_recommendation |-> recommended.returned] @@ run.frame]]
                /\ heap' = heap_after(solutions_object, recommended.templates, r)
           ELSE /\ runs' = [runs EXCEPT ![r] =
                     IF run.pc = "classify_issue"
                     THEN [resumed EXCEPT !.frame =
                              [issue_classification |-> classify_issue(issue_description)]]
                     ELSE IF run.pc = "assess_priority"
                     THEN [resumed EXCEPT !.frame =
                              [priority_assessment |->
                                  assess_priority(customer_data, issue_description)]
                                  @@ run.frame]
                     ELSE [resumed EXCEPT !.frame = EmptyDict,
                                        !.step_results = Append(run.step_results, returned),
                                        !.context = [analysis |-> returned.analysis]
                                                        @@ run.context]]
                /\ heap' = heap
    /\ UNCHANGED <<handler_vars, coordinator_vars, tool_vars, models_vars, utils_vars>>

\* ReporterAgent.execute, resumed at one of its awaits
ResumeReporter ==
    \E r \in DOMAIN runs :
    /\ runs[r].workflow = "handlers"
    /\ InSeq(runs[r].pc, ReporterAwaits)
    /\ LET run == runs[r]
           analysis == Get(run.context, "analysis", EmptyDict)
           customer_data == Get(run.context, "data", EmptyDict)
           customer_id == Get(run.context, "customer_id", None)
           resumed == [run EXCEPT !.pc = next_await(HandlersAwaits, run.pc)]
           templates_object == new_dict(r, "generate_customer_response")
           response == generate_customer_response_on(
                           dict_content(templates_object, response_templates),
                           analysis, customer_data)
           notifications == send_notifications(analysis, customer_id,
                                               concurrent_reporter_outcomes)
           returned == [step |-> "reporting",
                        customer_id |-> customer_id,
                        outputs |-> [customer_response |-> run.frame.customer_response,
                                     internal_report |-> run.frame.internal_report,
                                     storage_results |-> run.frame.storage_results,
                                     notifications |-> notifications.returned],
                        status |-> "completed"]
       IN  IF run.pc = "generate_customer_response"
           THEN /\ runs' = [runs EXCEPT ![r] =
                     [resumed EXCEPT !.frame = [customer_response |-> response.returned]]]
                /\ heap' = heap_after(templates_object, response.templates, r)
           ELSE /\ runs' = [runs EXCEPT ![r] =
                     IF run.pc = "create_internal_report"
                     THEN [resumed EXCEPT !.frame =
                              [internal_report |->
                                  create_internal_report(
                                      analysis, customer_data, run.frame.customer_response,
                                      concurrent_reporter_outcomes.processing_seconds)]
                                  @@ run.frame]
                     ELSE IF run.pc = "store_results"
                     THEN [resumed EXCEPT !.frame =
                              [storage_results |->
                                  store_results(customer_id, run.frame.internal_report,
                                                run.frame.customer_response,
                                                concurrent_reporter_outcomes.s3,
                                                concurrent_reporter_outcomes.dynamodb).returned]
                                  @@ run.frame]
                     ELSE [resumed EXCEPT !.frame = EmptyDict,
                                        !.step_results = Append(run.step_results, returned)]]
                /\ heap' = heap
    /\ UNCHANGED <<handler_vars, coordinator_vars, tool_vars, models_vars, utils_vars>>

\* process_customer_request, resumed at one of its awaits or at its return
ResumeCoordinator ==
    \E r \in DOMAIN runs :
    /\ runs[r].workflow = "coordinator"
    /\ InSeq(runs[r].pc, CoordinatorAwaits)
    /\ LET run == runs[r]
           customer_id == Get(run.context, "customer_id", None)
           resumed == [run EXCEPT !.pc = next_await(CoordinatorAwaits, run.pc)]
       IN  runs' = [runs EXCEPT ![r] =
             IF run.pc = "collect"
             THEN [resumed EXCEPT !.frame =
                      [customer_data |->
                          collect_customer_data(customer_id,
                                                concurrent_profile_outcome(run.tier),
                                                "miss")]]
             ELSE IF run.pc = "analyze"
             THEN [resumed EXCEPT !.frame =
                      [analysis |->
                          analyze_customer_issue(run.frame.customer_data,
                                                 run.context.issue_description)]
                          @@ run.frame]
             ELSE IF run.pc = "respond"
             THEN [resumed EXCEPT !.frame =
                      [response |-> Coordinator_generate_customer_response(run.frame.analysis)]
                          @@ run.frame]
             ELSE IF run.pc = "store"
             THEN resumed
             ELSE [resumed EXCEPT !.step_results =
                      <<[customer_id |-> customer_id,
                         status |-> "completed",
                         response |-> run.frame.response,
                         analysis |-> run.frame.analysis]>>]]
    /\ heap' = heap
    /\ UNCHANGED <<handler_vars, coordinator_vars, tool_vars, models_vars, utils_vars>>

NextConcurrent ==
    \/ ResumeDataCollector
    \/ ResumeAnalyzer
    \/ ResumeReporter
    \/ ResumeCoordinator

SpecConcurrent == InitConcurrent /\ [][NextConcurrent]_vars

(***************************************************************************)
(* The cache helpers of shared/utils.py: cache_get, cache_set and          *)
(* cache_delete on the Redis client of the AWSServiceManager instance.     *)
(* A Python value is named by its repr, a JSON text is the text itself.    *)
(***************************************************************************)
\* json.dumps(data, indent=2, default=str) of the values it can serialise; a dict
\* with a tuple key is not one of them (TypeError)
json_dumps ==
    ("{'a': 1}" :> "{\n  \"a\": 1\n}") @@ ("{}" :> "{}") @@ ("None" :> "null")

\* json.loads of the texts it can parse
json_loads ==
    ("{\n  \"a\": 1\n}" :> "{'a': 1}") @@ ("{}" :> "{}") @@ ("null" :> "None")

\* safe_json_loads: the parsed value, the default for a text that is not JSON
safe_json_loads(json_string, default) ==
    IF json_string \in DOMAIN json_loads THEN json_loads[json_string] ELSE default

\* safe_json_dumps: the JSON text, "{}" for a value that cannot be serialised
safe_json_dumps(data) ==
    IF data \in DOMAIN json_dumps THEN json_dumps[data] ELSE "{}"

\* the values cache_set is called with, the last of them not serialisable
CacheValues == {"{'a': 1}", "{}", "{(1, 2): 3}"}

\* the defaults cache_get is called with
CacheDefaults == {None, "'default'"}

CacheKeys == {"session:C1"}

\* the texts another writer may have left under a key: JSON, text that is not
\* JSON, and the empty string
StoredTexts == {"{\n  \"a\": 1\n}", "null", "not json", ""}

\* the ttl arguments; Redis refuses an expire time that is not positive
CacheTtls == {0, 60, 3600}

\* what becomes of a command sent to the server: it is executed and answered, the
\* connection fails, the answer times out, or it times out after the execution
ServerOutcomes == {"ok", "ConnectionError", "TimeoutError", "TimeoutError after execution"}

\* what becomes of the ping of a new client
PingOutcomes == {"ok", "ConnectionError", "TimeoutError"}

\* AWSServiceManager.redis_client: the manager afterwards, the client returned
\* (None for no client) and the exception that left the property, if any
redis_client(manager, ping_outcome) ==
    IF manager._redis = None
    THEN IF manager.endpoint # None
         THEN IF ping_outcome = "ok"
              THEN [manager |-> [manager EXCEPT !._redis = "client"],
                    client |-> "client", raised |-> None]
              ELSE IF ping_outcome = "ConnectionError"
              THEN [manager |-> [manager EXCEPT !._redis = None],
                    client |-> None, raised |-> None]
              ELSE [manager |-> [manager EXCEPT !._redis = "client"],
                    client |-> None, raised |-> ping_outcome]
         ELSE [manager |-> manager, client |-> None, raised |-> None]
    ELSE [manager |-> manager, client |-> manager._redis, raised |-> None]

\* the exception a command ends with, None if it is answered
command_raised(outcome) ==
    IF outcome = "ok" THEN None
    ELSE IF outcome = "TimeoutError after execution" THEN "TimeoutError"
    ELSE outcome

command_executed(outcome) == outcome \in {"ok", "TimeoutError after execution"}

\* client.get(key): the text under the key, None if there is none
redis_get(server, key, outcome) ==
    [server |-> server,
     value |-> IF outcome = "ok" /\ key \in DOMAIN server THEN server[key].value ELSE None,
     raised |-> command_raised(outcome)]

\* client.setex(key, ttl, value)
redis_setex(server, key, ttl, value, outcome) ==
    IF command_executed(outcome) /\ ttl <= 0
    THEN [server |-> server, raised |-> "ResponseError"]
    ELSE [server |-> IF command_executed(outcome)
                     THEN (key :> [value |-> value, ttl |-> ttl]) @@ server
                     ELSE server,
          raised |-> command_raised(outcome)]

\* client.delete(key)
redis_delete(server, key, outcome) ==
    [server |-> IF command_executed(outcome)
                THEN [k \in DOMAIN server \ {key} |-> server[k]]
                ELSE server,
     raised |-> command_raised(outcome)]

\* an except clause that catches redis.ConnectionError only
except_ConnectionError(body, fallback) ==
    IF body.raised = "ConnectionError"
    THEN [body EXCEPT !.returned = fallback, !.raised = None]
    ELSE body

\* try: <body> except Exception: log; then the return after the try statement
except_Exception(body, fallback) ==
    IF body.raised # None
    THEN [body EXCEPT !.returned = fallback, !.raised = None]
    ELSE body

\* what a body of a try block is left with when no client is to be had
no_client(client, server, fallback) ==
    [returned |-> fallback, raised |-> client.raised, manager |-> client.manager,
     server |-> server, commands |-> <<>>]

cache_get(key, default, manager, server, ping_outcome, outcome) ==
    LET client == redis_client(manager, ping_outcome)
        got == redis_get(server, key, outcome)
        body ==
            IF client.raised # None \/ client.client = None
            THEN no_client(client, server, default)
            ELSE [returned |-> IF got.raised = None /\ got.value \notin {None, ""}
                               THEN safe_json_loads(got.value, default)
                               ELSE default,
                  raised |-> got.raised,
                  manager |-> client.manager,
                  server |-> got.server,
                  commands |-> <<[command |-> "GET", key |-> key, outcome |-> outcome]>>]
    IN  except_Exception(body, default)

cache_set(key, value, ttl, manager, server, ping_outcome, outcome) ==
    LET client == redis_client(manager, ping_outcome)
        json_value == safe_json_dumps(value)
        written == redis_setex(server, key, ttl, json_value, outcome)
        body ==
            IF client.raised # None \/ client.client = None
            THEN no_client(client, server, FALSE)
            ELSE [returned |-> written.raised = None,
                  raised |-> written.raised,
                  manager |-> client.manager,
                  server |-> written.server,
                  commands |-> <<[command |-> "SETEX", key |-> key, ttl |-> ttl,
                                  value |-> json_value, outcome |-> outcome]>>]
    IN  except_Exception(body, FALSE)

cache_delete(key, manager, server, ping_outcome, outcome) ==
    LET client == redis_client(manager, ping_outcome)
        deleted == redis_delete(server, key, outcome)
        body ==
            IF client.raised # None \/ client.client = None
            THEN no_client(client, server, FALSE)
            ELSE [returned |-> deleted.raised = None,
                  raised |-> deleted.raised,
                  manager |-> client.manager,
                  server |-> deleted.server,
                  commands |-> <<[command |-> "DEL", key |-> key, outcome |-> outcome]>>]
    IN  except_Exception(body, FALSE)

InitCache ==
    /\ aws_manager \in {[endpoint |-> e, _redis |-> None] : e \in {None, "cache.host"}}
    /\ redis_server \in {EmptyDict}
           \cup {(k :> [value |-> t, ttl |-> 60]) : k \in CacheKeys, t \in StoredTexts}
    /\ cache_call = EmptyDict
    /\ retry = EmptyDict
    /\ HandlersIdle
    /\ CoordinatorIdle
    /\ ToolsIdle
    /\ ModelsIdle
    /\ ConcurrentIdle

\* the state of the cache before a call, as far as the call depends on it
cache_before ==
    [endpoint |-> aws_manager.endpoint,
     connected |-> aws_manager._redis # None,
     server |-> redis_server]

CallCacheGet ==
    /\ aws_manager # EmptyDict
    /\ \E key \in CacheKeys, default \in CacheDefaults,
          ping_outcome \in PingOutcomes, outcome \in ServerOutcomes :
         LET out == cache_get(key, default, aws_manager, redis_server, ping_outcome, outcome)
         IN  /\ aws_manager' = out.manager
             /\ redis_server' = out.server
             /\ cache_call' = [function |-> "cache_get", key |-> key, default |-> default,
                               value |-> None, ttl |-> 0,
                               before |-> cache_before,
                               ping_outcome |-> ping_outcome, outcome |-> outcome,
                               returned |-> out.returned, raised |-> out.raised,
                               commands |-> out.commands]
    /\ UNCHANGED <<handler_vars, coordinator_vars, tool_vars, models_vars, retry,
                   concurrent_vars>>

CallCacheSet ==
    /\ aws_manager # EmptyDict
    /\ \E key \in CacheKeys, value \in CacheValues, ttl \in CacheTtls,
          ping_outcome \in PingOutcomes, outcome \in ServerOutcomes :
         LET out == cache_set(key, value, ttl, aws_manager, redis_server,
                              ping_outcome, outcome)
         IN  /\ aws_manager' = out.manager
             /\ redis_server' = out.server
             /\ cache_call' = [function |-> "cache_set", key |-> key, default |-> None,
                               value |-> value, ttl |-> ttl,
                               before |-> cache_before,
                               ping_outcome |-> ping_outcome, outcome |-> outcome,
                               returned |-> out.returned, raised |-> out.raised,
                               commands |-> out.commands]
    /\ UNCHANGED <<handler_vars, coordinator_vars, tool_vars, models_vars, retry,
                   concurrent_vars>>

CallCacheDelete ==
    /\ aws_manager # EmptyDict
    /\ \E key \in CacheKeys, ping_outcome \in PingOutcomes, outcome \in ServerOutcomes :
         LET out == cache_delete(key, aws_manager, redis_server, ping_outcome, outcome)
         IN  /\ aws_manager' = out.manager
             /\ redis_server' = out.server
             /\ cache_call' = [function |-> "cache_delete", key |-> key, default |-> None,
                               value |-> None, ttl |-> 0,
                               before |-> cache_before,
                               ping_outcome |-> ping_outcome, outcome |-> outcome,
                               returned |-> out.returned, raised |-> out.raised,
                               commands |-> out.commands]
    /\ UNCHANGED <<handler_vars, coordinator_vars, tool_vars, models_vars, retry,
                   concurrent_vars>>

NextCache == CallCacheGet \/ CallCacheSet \/ CallCacheDelete

SpecCache == InitCache /\ [][NextCache]_vars

(***************************************************************************)
(* retry_with_backoff (shared/utils.py): one call of the wrapper, a step   *)
(* for every call of func, for every time.sleep and for the final raise.   *)
(***************************************************************************)
\* what a call of func does: it returns, it raises an Exception, or it raises
\* a BaseException that `except Exception` does not catch
Exceptions == {"ConnectionError", "ValueError"}
FuncOutcomes == {"ok"} \cup Exceptions \cup {"KeyboardInterrupt"}

\* the values of backoff_multiplier
Multipliers == {2, 3}

\* no exception: last_exception = None
NoException == [exception |-> None, attempt |-> -1]

\* no value returned yet
NoResult == [attempt |-> -1]

RECURSIVE power(_, _)
\* base ** exponent
power(base, exponent) == IF exponent = 0 THEN 1 ELSE base * power(base, exponent - 1)

\* wait_time = backoff_multiplier ** attempt
wait_time(backoff_multiplier, attempt) == power(backoff_multiplier, attempt)

\* a wait after every failed attempt, the last one included
waits_after_every_failure(attempt, max_attempts) == attempt < max_attempts

\* if attempt < max_attempts - 1: the wrapper sleeps before the next attempt
waits_before_next(attempt, max_attempts) == attempt < max_attempts - 1

\* for attempt in range(max_attempts): the next iteration, or the end of the loop
loop_pc(attempt, max_attempts) == IF attempt < max_attempts THEN "call" ELSE "raise"

RetryIdle == retry = EmptyDict

InitRetry ==
    /\ retry \in {[max_attempts |-> m,
                   backoff_multiplier |-> b,
                   pc |-> loop_pc(0, m),
                   attempt |-> 0,
                   last_exception |-> NoException,
                   history |-> <<>>,
                   returned |-> NoResult,
                   raised |-> NoException] : m \in 0..MaxAttempts, b \in Multipliers}
    /\ CacheIdle
    /\ HandlersIdle
    /\ CoordinatorIdle
    /\ ToolsIdle
    /\ ModelsIdle
    /\ ConcurrentIdle

\* try: return func(*args, **kwargs) / except Exception as e: ...
RetryCallFunc ==
    /\ ~RetryIdle
    /\ retry.pc = "call"
    /\ \E outcome \in FuncOutcomes :
         LET called == Append(retry.history,
                              [event |-> "call", attempt |-> retry.attempt,
                               outcome |-> outcome, seconds |-> 0])
         IN  retry' =
               IF outcome = "ok"
               THEN [retry EXCEPT !.history = called, !.pc = "returned",
                                  !.returned = [attempt |-> retry.attempt]]
               ELSE IF outcome \in Exceptions
               THEN IF waits_before_next(retry.attempt, retry.max_attempts)
                    THEN [retry EXCEPT
                            !.history = called, !.pc = "sleep",
                            !.last_exception = [exception |-> outcome,
                                                attempt |-> retry.attempt]]
                    ELSE [retry EXCEPT
                            !.history = called,
                            !.pc = loop_pc(retry.attempt + 1, retry.max_attempts),
                            !.attempt = retry.attempt + 1,
                            !.last_exception = [exception |-> outcome,
                                                attempt |-> retry.attempt]]
               ELSE [retry EXCEPT !.history = called, !.pc = "raised",
                                  !.raised = [exception |-> outcome,
                                              attempt |-> retry.attempt]]
    /\ UNCHANGED <<handler_vars, coordinator_vars, tool_vars, models_vars, cache_vars,
                   concurrent_vars>>

\* time.sleep(wait_time), then the next iteration of the loop
RetrySleep ==
    /\ ~RetryIdle
    /\ retry.pc = "sleep"
    /\ retry' = [retry EXCEPT
                   !.history = Append(retry.history,
                                      [event |-> "sleep", attempt |-> retry.attempt,
                                       outcome |-> None,
                                       seconds |-> wait_time(retry.backoff_multiplier,
                                                             retry.attempt)]),
                   !.attempt = retry.attempt + 1,
                   !.pc = loop_pc(retry.attempt + 1, retry.max_attempts)]
    /\ UNCHANGED <<handler_vars, coordinator_vars, tool_vars, models_vars, cache_vars,
                   concurrent_vars>>

\* raise last_exception; `raise None` is a TypeError
RetryRaise ==
    /\ ~RetryIdle
    /\ retry.pc = "raise"
    /\ retry' = [retry EXCEPT
                   !.pc = "raised",
                   !.raised = IF retry.last_exception = NoException
                              THEN [exception |-> "TypeError", attempt |-> -1]
                              ELSE retry.last_exception]
    /\ UNCHANGED <<handler_vars, coordinator_vars, tool_vars, models_vars, cache_vars,
                   concurrent_vars>>

NextRetry == RetryCallFunc \/ RetrySleep \/ RetryRaise

SpecRetry == InitRetry /\ [][NextRetry]_vars

(***************************************************************************)
(* Properties of process_customer_request (under SpecCoordinator).         *)
(***************************************************************************)
HasKey(d, key) == key \in DOMAIN d

Returned == DOMAIN result # {}

\* C1: the stages run in the order data collection, analysis, response generation,
\* interaction storage, each after the previous one has returned its output and
\* none twice; a result with status 'completed', carrying the response and the
\* analysis, exists only after all four have run.
C1_StagesRunInOrder ==
    /\ Len(stages_run) <= 4
    /\ \A i \in 1..Len(stages_run) :
          stages_run[i].stage = <<"collect", "analyze", "respond", "store">>[i]
    /\ \A i \in 1..(Len(stages_run) - 1) : stages_run[i].outcome # "raised"
    /\ Len(stages_run) >= 2 => HasKey(locals, "customer_data")
    /\ Len(stages_run) >= 3 => HasKey(locals, "analysis")
    /\ Len(stages_run) >= 4 => HasKey(locals, "response")
    /\ Returned =>
          /\ Len(stages_run) = 4
          /\ stages_run[4].outcome # "raised"
          /\ result.status = "completed"
          /\ result.customer_id = request.customer_id
          /\ result.response = locals.response
          /\ result.analysis = locals.analysis

C1_Witness ==
    /\ Returned
    /\ result.status = "completed"
    /\ Len(stages_run) = 4

\* C2: if a stage of the workflow fails, the workflow ends in a terminal failed
\* state that carries the error cause, no later stage is run, and the run never
\* reports status 'completed'.
C2_FailedStageIsTerminal ==
    \A i \in 1..Len(stages_run) :
        stages_run[i].outcome # "ok" =>
            /\ i = Len(stages_run)
            /\ pc = "raised"
            /\ error # ""
            /\ ~Returned

(***************************************************************************)
(* Properties of AnalyzerAgent.execute (under Spec).                       *)
(***************************************************************************)
Analyzed == Len(step_results) = 2

IssueText == context.issue_description

\* the whitespace-separated tokens of a lower-cased text
TokensOf(text) == split(lower(text))

\* the number of tokens that contain one of the keywords
TokenMatches(tokens, keywords) ==
    Cardinality({i \in 1..Len(tokens) :
        \E k \in 1..Len(keywords) : contains(keywords[k], tokens[i])})

\* the match count of every category
CategoryMatches(text) ==
    LET tokens == TokensOf(text)
    IN  [billing |-> TokenMatches(tokens, billing_keywords),
         technical |-> TokenMatches(tokens, technical_keywords),
         account |-> TokenMatches(tokens, account_keywords),
         product |-> TokenMatches(tokens, product_keywords),
         general |-> TokenMatches(tokens, general_keywords)]

\* the float x equals matches / total; 0.0 stands for the quotient of an empty text
IsQuotient(x, matches, total) ==
    IF total > 0 THEN x[1] * total = matches * x[2] ELSE x[1] = 0

DeclaredBefore(a, b) ==
    \E i, j \in 1..5 :
        /\ i < j
        /\ <<"billing", "technical", "account", "product", "general">>[i] = a
        /\ <<"billing", "technical", "account", "product", "general">>[j] = b

\* C3: classify_issue gives each category the confidence (tokens of the lower-cased
\* text containing one of its keywords) / (tokens), and returns the category with the
\* maximum confidence, the first declared one among several with the maximum.
C3_ClassifyIssue ==
    Analyzed =>
        LET c == context.analysis.issue_classification
            total == Len(TokensOf(IssueText))
            m == CategoryMatches(IssueText)
        IN  /\ DOMAIN c.all_scores = DOMAIN m
            /\ \A cat \in DOMAIN m : IsQuotient(c.all_scores[cat], m[cat], total)
            /\ c.primary_category \in DOMAIN m
            /\ IsQuotient(c.confidence, m[c.primary_category], total)
            /\ \A cat \in DOMAIN m :
                  /\ m[cat] <= m[c.primary_category]
                  /\ DeclaredBefore(cat, c.primary_category) => m[cat] < m[c.primary_category]

\* two categories other than billing share the maximum, and it is not zero
C3_Witness ==
    /\ Analyzed
    /\ LET m == CategoryMatches(IssueText)
       IN  /\ m.billing = 0
           /\ \E a, b \in {"technical", "account", "product", "general"} :
                 /\ DeclaredBefore(a, b)
                 /\ m[a] = m[b]
                 /\ m[a] > 0
                 /\ \A cat \in DOMAIN m : m[cat] <= m[a]
                 /\ context.analysis.issue_classification.primary_category = a

\* a keyword of the billing list occurs in the text
ContainsBillingKeyword(text) ==
    LET text_lower == lower(text)
    IN  \E k \in 1..Len(billing_keywords) : contains(billing_keywords[k], text_lower)

\* no category has a strictly higher keyword-match score than billing
NoStrongerThanBilling(text) ==
    LET m == CategoryMatches(text)
    IN  \A cat \in DOMAIN m : m[cat] <= m.billing

\* C4: for every issue text that contains a billing keyword and in which no other
\* category has a strictly higher keyword-match score than billing, the classification
\* of the workflow (CustomerServiceCoordinator.classify_issue, under SpecCoordinator)
\* yields 'billing'.
C4_BillingKeywordYieldsBilling ==
    HasKey(locals, "analysis") =>
        (ContainsBillingKeyword(locals.issue_description)
            /\ NoStrongerThanBilling(locals.issue_description)
         => locals.analysis.issue_type = "billing")

\* C4, for AnalyzerAgent.classify_issue alone (under Spec): there the classification
\* of such a text is 'billing'.
C4_AnalyzerYieldsBilling ==
    Analyzed =>
        (ContainsBillingKeyword(IssueText) /\ NoStrongerThanBilling(IssueText)
         => context.analysis.issue_classification.primary_category = "billing")

\* the tier the analysis reads from the collected profile
ProfileTier ==
    Get(Get(Get(context, "data", EmptyDict), "profile", EmptyDict), "tier", "standard")

\* how many of the keywords occur in the lower-cased text
KeywordsOccurring(keywords, text) ==
    LET text_lower == lower(text)
    IN  Cardinality({k \in 1..Len(keywords) : contains(keywords[k], text_lower)})

\* C5: assess_priority returns score = tier weight (standard 1, premium 2,
\* enterprise 3) + 2 x (urgency keywords occurring in the text) + (impact keywords
\* occurring in the text), and level critical for score >= 6, high for 4..5,
\* medium for 2..3, low otherwise.
C5_AssessPriority ==
    Analyzed =>
        LET pr == context.analysis.priority
            urgency == KeywordsOccurring(urgency_keywords, IssueText)
            impact == KeywordsOccurring(impact_keywords, IssueText)
        IN  /\ ProfileTier = "standard" => pr.score = 1 + 2 * urgency + impact
            /\ ProfileTier = "premium" => pr.score = 2 + 2 * urgency + impact
            /\ ProfileTier = "enterprise" => pr.score = 3 + 2 * urgency + impact
            /\ pr.level = "critical" <=> pr.score >= 6
            /\ pr.level = "high" <=> (4 <= pr.score /\ pr.score < 6)
            /\ pr.level = "medium" <=> (2 <= pr.score /\ pr.score < 4)
            /\ pr.level = "low" <=> pr.score < 2

\* an enterprise profile, an urgency and an impact keyword: score 6, the least critical
C5_Witness ==
    /\ Analyzed
    /\ ProfileTier = "enterprise"
    /\ KeywordsOccurring(urgency_keywords, IssueText) = 1
    /\ KeywordsOccurring(impact_keywords, IssueText) = 1
    /\ context.analysis.priority.score = 6
    /\ context.analysis.priority.level = "critical"

\* C6: for an enterprise profile and a text in which at least one urgency keyword
\* occurs, the score is at least 5 and the level is high or critical.
C6_EnterpriseUrgent ==
    (Analyzed /\ ProfileTier = "enterprise"
        /\ KeywordsOccurring(urgency_keywords, IssueText) >= 1)
    => /\ context.analysis.priority.score >= 5
       /\ context.analysis.priority.level \in {"high", "critical"}

\* the least such score: one urgency keyword and nothing else
C6_Witness ==
    /\ Analyzed
    /\ ProfileTier = "enterprise"
    /\ KeywordsOccurring(urgency_keywords, IssueText) = 1
    /\ context.analysis.priority.score = 5
    /\ context.analysis.priority.level = "high"

\* the numbers of tokens matching the positive, negative and neutral word lists
SentimentMatches(text) ==
    LET tokens == TokensOf(text)
    IN  [positive |-> TokenMatches(tokens, positive_words),
         negative |-> TokenMatches(tokens, negative_words),
         neutral |-> TokenMatches(tokens, neutral_words)]

\* C7: on a text, the empty one included, in which no token matches a positive,
\* negative or neutral word, analyze_sentiment returns 'neutral' with confidence 0.5.
C7_NoSentimentWord ==
    Analyzed =>
        LET n == SentimentMatches(IssueText)
            s == context.analysis.sentiment
        IN  n.positive + n.negative + n.neutral = 0
            => /\ s.sentiment = "neutral"
               /\ 2 * s.confidence[1] = s.confidence[2]

\* a text with tokens, none of them a sentiment word
C7_Witness ==
    /\ Analyzed
    /\ Len(TokensOf(IssueText)) >= 2
    /\ LET n == SentimentMatches(IssueText)
       IN  n.positive + n.negative + n.neutral = 0
    /\ context.analysis.sentiment.sentiment = "neutral"

\* the sentiment the comparison of the positive and negative counts decides
ComparisonDecides(n, sentiment) ==
    /\ n.negative > n.positive => sentiment = "negative"
    /\ n.positive > n.negative => sentiment = "positive"
    /\ n.positive = n.negative => sentiment = "neutral"

\* C8 as stated: with a sentiment word present the comparison decides the sentiment,
\* and in every case the confidence is (matches of the returned sentiment's list) /
\* (positive + negative + neutral matches).
C8_ConfidenceIsShareOfReturned ==
    Analyzed =>
        LET n == SentimentMatches(IssueText)
            s == context.analysis.sentiment
            total == n.positive + n.negative + n.neutral
        IN  total > 0
            => /\ ComparisonDecides(n, s.sentiment)
               /\ s.confidence[1] * total = n[s.sentiment] * s.confidence[2]

\* C8 as amended: the same, except that a tie of the positive and negative counts
\* with no neutral word matched returns 'neutral' with confidence 0.5.
C8_ConfidenceOfSentiment ==
    Analyzed =>
        LET n == SentimentMatches(IssueText)
            s == context.analysis.sentiment
            total == n.positive + n.negative + n.neutral
        IN  total > 0
            => /\ ComparisonDecides(n, s.sentiment)
               /\ IF n.positive = n.negative /\ n.neutral = 0
                  THEN 2 * s.confidence[1] = s.confidence[2]
                  ELSE s.confidence[1] * total = n[s.sentiment] * s.confidence[2]

\* a tie of one positive and one negative word beside a neutral word: 1/3
C8_Witness ==
    /\ Analyzed
    /\ LET n == SentimentMatches(IssueText)
       IN  n.positive = 1 /\ n.negative = 1 /\ n.neutral = 1
    /\ context.analysis.sentiment.sentiment = "neutral"
    /\ 3 * context.analysis.sentiment.confidence[1] = context.analysis.sentiment.confidence[2]

(***************************************************************************)
(* Properties of the helper functions called directly (under SpecTools).   *)
(***************************************************************************)
\* the SLA table: (priority level, tier, target)
SlaTable ==
    { <<"critical", "enterprise", "1 hour">>, <<"critical", "premium", "2 hours">>,
      <<"critical", "standard", "4 hours">>,
      <<"high", "enterprise", "4 hours">>, <<"high", "premium", "8 hours">>,
      <<"high", "standard", "24 hours">>,
      <<"medium", "enterprise", "8 hours">>, <<"medium", "premium", "24 hours">>,
      <<"medium", "standard", "48 hours">>,
      <<"low", "enterprise", "24 hours">>, <<"low", "premium", "48 hours">>,
      <<"low", "standard", "72 hours">> }

InSlaTable(level, tier) == \E e \in SlaTable : e[1] = level /\ e[2] = tier

\* C9: get_sla_target returns "1 hour" for (critical, enterprise), the table entry
\* for each of the 12 pairs of the table and "72 hours" for every other pair, and
\* determine_sla_target returns the same string for every valid pair.
C9_SlaLookup ==
    /\ Cardinality(SlaTable) = 12
    /\ HasKey(sla_results, "agent") =>
          /\ \A e \in SlaTable :
                (sla_input.priority_level = e[1] /\ sla_input.customer_tier = e[2])
                => sla_results.agent = e[3]
          /\ ~InSlaTable(sla_input.priority_level, sla_input.customer_tier)
                => sla_results.agent = "72 hours"
    /\ (HasKey(sla_results, "agent") /\ HasKey(sla_results, "models")
            /\ InSlaTable(sla_input.priority_level, sla_input.customer_tier))
       => sla_results.models = sla_results.agent

\* both lookups were called for (critical, enterprise)
C9_Witness ==
    /\ sla_input = [priority_level |-> "critical", customer_tier |-> "enterprise"]
    /\ HasKey(sla_results, "agent")
    /\ HasKey(sla_results, "models")
    /\ sla_results.agent = "1 hour"

Assign == "Assign dedicated support representative"

\* how many entries of a list are the given one
Occurrences(list, entry) == Cardinality({i \in 1..Len(list) : list[i] = entry})

\* the tier of the profile recommend_solution was called with
CallTier == Get(solution_call.customer_data.profile, "tier", "standard")

\* the template without the entry the tier customisation puts in front
WithoutAssign(template) ==
    IF Len(template.immediate_actions) > 0 /\ template.immediate_actions[1] = Assign
    THEN Tail(template.immediate_actions)
    ELSE template.immediate_actions

\* the returned template is the one of the table for the category
IsTemplateOf(template, category) ==
    /\ WithoutAssign(template) = solutions[category].immediate_actions
    /\ template.resolution_steps = solutions[category].resolution_steps
    /\ template.escalation_criteria = solutions[category].escalation_criteria

\* the entry is first for premium and enterprise, and only for them, and is there once
AssignIffPremiumOrEnterprise(template) ==
    /\ (Len(template.immediate_actions) > 0 /\ template.immediate_actions[1] = Assign)
          <=> CallTier \in {"premium", "enterprise"}
    /\ Occurrences(template.immediate_actions, Assign)
          = IF CallTier \in {"premium", "enterprise"} THEN 1 ELSE 0

\* C10 as stated: recommend_solution returns the fixed template of the classified
\* category, with 'Assign dedicated support representative' first iff the tier is
\* premium or enterprise, and that entry once, also after earlier calls.
C10_TemplateOfClassifiedCategory ==
    (HasKey(solution_call, "returned")
        /\ solution_call.classification.primary_category \in Categories)
    => /\ solution_call.classification.primary_category \in DOMAIN solutions
       /\ IsTemplateOf(solution_call.returned.solution_template,
                       solution_call.classification.primary_category)
       /\ AssignIffPremiumOrEnterprise(solution_call.returned.solution_template)

\* C10 as amended: a category without a template of its own (general) gets the
\* product template; the rest as stated.
C10_TemplateOrProductTemplate ==
    HasKey(solution_call, "returned") =>
        LET category == solution_call.classification.primary_category
            template == solution_call.returned.solution_template
        IN  /\ solution_call.returned.category = category
            /\ IsTemplateOf(template,
                            IF category \in {"billing", "technical", "account", "product"}
                            THEN category ELSE "product")
            /\ AssignIffPremiumOrEnterprise(template)

\* a premium call after two earlier calls
C10_Witness ==
    /\ calls = 3
    /\ HasKey(solution_call, "returned")
    /\ CallTier = "premium"
    /\ solution_call.returned.solution_template.immediate_actions[1] = Assign
    /\ Len(solution_call.returned.solution_template.immediate_actions) = 4

(***************************************************************************)
(* Properties of the confidence score (under SpecModels).                  *)
(***************************************************************************)
ConfidenceCalled ==
    HasKey(models_call, "function") /\ models_call.function = "calculate_confidence"

\* x hundredths is n / d rounded to 2 decimals: no hundredth is nearer to n / d
IsRoundedTo2(x, n, d) == 2 * (100 * n - x * d) <= d /\ 2 * (x * d - 100 * n) <= d

\* C11: the confidence score of an analysis is (classification confidence +
\* min(number of priority factors / 3, 1)) / 2 rounded to 2 decimals, and
\* AnalyzerAgent.calculate_confidence and models.calculate_confidence_score return
\* the same value for the same classification confidence and factor count.
C11_ConfidenceScore ==
    ConfidenceCalled =>
        LET c == models_call.classification.confidence
            f == Len(models_call.priority.factors)
            \* min(f / 3, 1) is third / 3
            third == IF f <= 3 THEN f ELSE 3
        IN  /\ models_call.agent = models_call.models
            /\ models_call.agent[2] = 100
            \* (c[1] / c[2] + third / 3) / 2 = (3 * c[1] + third * c[2]) / (6 * c[2])
            /\ IsRoundedTo2(models_call.agent[1], 3 * c[1] + third * c[2], 6 * c[2])

\* four factors, capped to the share 1.0: (0.25 + 1.0) / 2 = 0.625 rounds to 0.62
C11_Witness ==
    /\ ConfidenceCalled
    /\ Len(models_call.priority.factors) = 4
    /\ models_call.classification.confidence = <<1, 4>>
    /\ models_call.agent = <<62, 100>>
    /\ models_call.models = <<62, 100>>

(***************************************************************************)
(* Properties of the reporting stage (under SpecReporter).                 *)
(***************************************************************************)
\* what the reporter returned as its outputs
ReportOutputs == step_results[Len(step_results)].outputs

ResponseText == ReportOutputs.customer_response.response_text

\* the analysis the reporter was given
ReportAnalysis == Get(context, "analysis", EmptyDict)

ReportSentiment == Get(ReportAnalysis, "sentiment", EmptyDict)

ReportCategory ==
    Get(Get(ReportAnalysis, "issue_classification", EmptyDict), "primary_category", "general")

StartsWith(prefix, s) ==
    Len(prefix) <= Len(s) /\ \A j \in 1..Len(prefix) : s[j] = prefix[j]

ApologyClause ==
    <<"I"," ","s","i","n","c","e","r","e","l","y"," ","a","p","o","l","o","g","i","z","e"," ","f",
      "o","r"," ","t","h","e"," ","i","n","c","o","n","v","e","n","i","e","n","c","e"," ","y","o",
      "u","'","v","e"," ","e","x","p","e","r","i","e","n","c","e","d",".">>

PremiumSalutation ==
    <<"D","e","a","r"," ","V","a","l","u","e","d"," ","P","r","e","m","i","u","m"," ","C","u","s",
      "t","o","m","e","r",",">>

EnterpriseSalutation ==
    <<"D","e","a","r"," ","V","a","l","u","e","d"," ","E","n","t","e","r","p","r","i","s","e"," ",
      "C","u","s","t","o","m","e","r",",">>

BillingGreeting ==
    <<"T","h","a","n","k"," ","y","o","u"," ","f","o","r"," ","c","o","n","t","a","c","t","i","n",
      "g"," ","u","s"," ","r","e","g","a","r","d","i","n","g"," ","y","o","u","r"," ","b","i","l",
      "l","i","n","g"," ","i","n","q","u","i","r","y",".">>

NegativeAbove07 ==
    /\ HasKey(ReportSentiment, "sentiment")
    /\ ReportSentiment.sentiment = "negative"
    /\ 10 * ReportSentiment.confidence[1] > 7 * ReportSentiment.confidence[2]

\* the apology clause, a blank, then the acknowledgment of a template
ApologyBeforeAcknowledgment(text) ==
    \E c \in DOMAIN response_templates :
        contains(ApologyClause \o <<" ">> \o response_templates[c].acknowledgment, text)

\* C12: generate_customer_response puts the apology clause in front of the
\* acknowledgment if and only if the sentiment is 'negative' and the sentiment
\* confidence is strictly greater than 0.7.
C12_ApologyIffNegativeAbove07 ==
    Reported =>
        /\ NegativeAbove07 => ApologyBeforeAcknowledgment(ResponseText)
        /\ ~NegativeAbove07 => ~contains(ApologyClause, ResponseText)

\* 'broken': negative with confidence 1.0, and the response apologizes
C12_Witness ==
    /\ Reported
    /\ NegativeAbove07
    /\ ApologyBeforeAcknowledgment(ResponseText)

\* the tier of the profile the reporter was given, if it was given one
ReportTier ==
    Get(Get(Get(context, "data", EmptyDict), "profile", EmptyDict), "tier", "no tier")

\* the greeting of the category; a category without a template of its own
\* ('general') is answered with the greeting of 'product'
CategoryGreeting(category) ==
    IF category \in DOMAIN response_templates
    THEN response_templates[category].greeting
    ELSE response_templates.product.greeting

\* C13: the response text begins with 'Dear Valued <Tier> Customer,' followed by
\* the category greeting if and only if the profile tier is premium or
\* enterprise; for every other tier it begins with the category greeting itself.
C13_SalutationIffPremiumOrEnterprise ==
    Reported =>
        LET greeting == CategoryGreeting(ReportCategory)
        IN  /\ ReportTier = "premium" =>
                  StartsWith(PremiumSalutation \o <<" ">> \o greeting, ResponseText)
            /\ ReportTier = "enterprise" =>
                  StartsWith(EnterpriseSalutation \o <<" ">> \o greeting, ResponseText)
            /\ ReportTier \notin {"premium", "enterprise"} =>
                  StartsWith(greeting, ResponseText)

\* an enterprise customer with a technical issue is greeted with the salutation
C13_Witness ==
    /\ Reported
    /\ ReportTier = "enterprise"
    /\ ReportCategory = "technical"
    /\ StartsWith(EnterpriseSalutation \o <<" ">> \o response_templates.technical.greeting,
                  ResponseText)

\* the priority level of the analysis, 'medium' if it has none
ReportLevel == Get(Get(ReportAnalysis, "priority", EmptyDict), "level", "medium")

\* the confidence score of the analysis is strictly less than 0.6; a missing
\* score counts as 0.0
ConfidenceBelow06 ==
    HasKey(ReportAnalysis, "confidence_score") =>
        10 * ReportAnalysis.confidence_score[1] < 6 * ReportAnalysis.confidence_score[2]

\* C14: the internal report's human_intervention_required flag is true if and
\* only if the priority level is 'critical' or the confidence score is strictly
\* less than 0.6 (a missing priority counts as 'medium', a missing score as 0.0).
C14_HumanIntervention ==
    Reported =>
        (ReportOutputs.internal_report.metrics.human_intervention_required
            <=> (ReportLevel = "critical" \/ ConfidenceBelow06))

\* a critical issue analysed with confidence 0.6 or more
C14_Witness ==
    /\ Reported
    /\ ReportLevel = "critical"
    /\ ~ConfidenceBelow06
    /\ ReportOutputs.internal_report.metrics.human_intervention_required

\* how many calls of the named collaborators raised
FailedCalls(names) ==
    Cardinality({i \in 1..Len(effects) :
                    effects[i].call \in names /\ effects[i].outcome = "exception"})

StorageCalls == {"s3.put_object", "dynamodb.put_item"}

NotificationCalls ==
    {"send_management_notification", "send_technical_notification",
     "send_customer_confirmation"}

\* the notification type of a send
TypeOfSend ==
    [send_management_notification |-> "management_alert",
     send_technical_notification |-> "technical_team_alert",
     send_customer_confirmation |-> "customer_confirmation"]

\* C19: a failure of the S3 write, of the DynamoDB write or of a notification
\* never propagates: execute still returns status 'completed', each failed
\* storage backend contributes exactly one entry to storage_results.errors, each
\* failed notification exactly one entry to notifications.failed, and the
\* DynamoDB write is still attempted after a failed S3 write.
C19_ReporterFailuresRecorded ==
    Reported =>
        LET errors == ReportOutputs.storage_results.errors
            failed == ReportOutputs.notifications.failed
        IN  /\ step_results[Len(step_results)].status = "completed"
            /\ Len(errors) = FailedCalls(StorageCalls)
            /\ Cardinality({i \in 1..Len(errors) : errors[i] = "S3 storage failed"})
                   = FailedCalls({"s3.put_object"})
            /\ Cardinality({i \in 1..Len(errors) : errors[i] = "DynamoDB storage failed"})
                   = FailedCalls({"dynamodb.put_item"})
            /\ Len(failed) = FailedCalls(NotificationCalls)
            /\ \A send \in NotificationCalls :
                   Cardinality({i \in 1..Len(failed) : failed[i].type = TypeOfSend[send]})
                       = FailedCalls({send})
            /\ \A i \in 1..Len(effects) :
                   effects[i].call = "s3.put_object" /\ effects[i].outcome = "exception" =>
                       \E j \in (i + 1)..Len(effects) : effects[j].call = "dynamodb.put_item"

\* both writes and two notifications failed, and the run completed
C19_Witness ==
    /\ Reported
    /\ step_results[Len(step_results)].status = "completed"
    /\ FailedCalls({"s3.put_object"}) = 1
    /\ FailedCalls({"dynamodb.put_item"}) = 1
    /\ FailedCalls(NotificationCalls) = 2
    /\ Len(ReportOutputs.storage_results.errors) = 2
    /\ Len(ReportOutputs.notifications.failed) = 2

(***************************************************************************)
(* The end-to-end scenario (under SpecCoordinator and SpecReporter).       *)
(***************************************************************************)
\* the request of the scenario, answered for a customer of tier premium
ScenarioReturned ==
    /\ Returned
    /\ request.customer_id = "C1"
    /\ HasKey(request, "issue_description")
    /\ request.issue_description = Scenario
    /\ HasKey(locals.customer_data.profile, "tier")
    /\ locals.customer_data.profile.tier = "premium"

\* the billing texts of the two response generators
BillingGreetings == {BillingGreeting, Coordinator_response_templates.billing}

\* C15: for customer_id 'C1', issue_description 'my invoice charge is wrong,
\* urgent' and a profile of tier 'premium', the workflow yields category
\* 'billing', a priority level of 'high' or 'critical', and a response text that
\* begins with the premium-tier salutation followed by the billing greeting.
C15_ScenarioOfCoordinator ==
    ScenarioReturned =>
        /\ result.analysis.issue_type = "billing"
        /\ result.analysis.priority \in {"high", "critical"}
        /\ \E greeting \in BillingGreetings :
               StartsWith(PremiumSalutation \o <<" ">> \o greeting, result.response)

\* the step handlers do yield the scenario's result
C15_ScenarioOfStepHandlers ==
    (/\ Len(step_results) = 3
     /\ context.customer_id = "C1"
     /\ context.issue_description = Scenario
     /\ ReportTier = "premium") =>
        /\ context.analysis.issue_classification.primary_category = "billing"
        /\ context.analysis.priority.level \in {"high", "critical"}
        /\ StartsWith(PremiumSalutation \o <<" ">> \o BillingGreeting, ResponseText)

(***************************************************************************)
(* Properties of CustomerProfile and of validation (under SpecModels,      *)
(* Spec and SpecCoordinator).                                              *)
(***************************************************************************)
RoundTripCalled ==
    HasKey(models_call, "function") /\ models_call.function = "from_dict(to_dict)"

ProfileFields ==
    {"customer_id", "name", "tier", "status", "created_date", "email", "phone", "preferences"}

\* C16: for every CustomerProfile p, CustomerProfile.from_dict(p.to_dict())
\* equals p in every field, with the tier restored as the same CustomerTier member.
C16_RoundTrip ==
    RoundTripCalled =>
        LET p == models_call.profile
            q == models_call.returned
        IN  /\ \A field \in ProfileFields : field \in DOMAIN q /\ q[field] = p[field]
            /\ q.tier.enum = "CustomerTier"
            /\ q.tier.name = p.tier.name

\* a premium profile with an e-mail address and preferences, serialized with the
\* tier 'premium' and restored with the member PREMIUM
C16_Witness ==
    /\ RoundTripCalled
    /\ models_call.profile.tier.name = "PREMIUM"
    /\ models_call.profile.email = "ada@example.com"
    /\ HasKey(models_call.profile.preferences, "timezone")
    /\ models_call.dict.tier = "premium"
    /\ models_call.returned = models_call.profile

ValidTiers == {"standard", "premium", "enterprise"}

TierFactors == {"Standard customer", "Premium customer", "Enterprise customer"}

\* C17: a customer tier string outside {standard, premium, enterprise} always
\* fails validation and is never silently treated as another tier; here: the
\* analysis stage does not score it as some valid tier.
C17_UnknownTierNotScoredAsValid ==
    (Analyzed /\ HasKey(context.data.profile, "tier")
        /\ context.data.profile.tier \notin ValidTiers) =>
        \A i \in 1..Len(context.analysis.priority.factors) :
            context.analysis.priority.factors[i] \notin TierFactors

ValidateCalled == HasKey(models_call, "function") /\ models_call.function = "validate"

\* the validations of C17: validate_customer_tier returns false, from_dict
\* rejects the tier, validate_customer_data reports the data as not valid
C17_UnknownTierFailsValidation ==
    (ValidateCalled /\ models_call.data.tier \notin ValidTiers) =>
        /\ ~models_call.validate_customer_tier
        /\ models_call.from_dict = ValueError
        /\ ~models_call.validate_customer_data.is_valid

\* the two validations that do reject an unknown tier
C17_EnumRejectsUnknownTier ==
    (ValidateCalled /\ models_call.data.tier \notin ValidTiers) =>
        /\ ~models_call.validate_customer_tier
        /\ models_call.from_dict = ValueError

\* the customer id is not a non-empty alphanumeric string
Malformed(customer_id) ==
    LET id == text_of[customer_id]
    IN  Len(id) = 0 \/ \E i \in 1..Len(id) : id[i] \notin Alphanumeric

\* C18: a request whose customer id is malformed or whose tier is invalid is
\* answered with a validation error surfaced to the caller; it is not processed
\* to a 'completed' result.
C18_InvalidRequestNotCompleted ==
    (/\ Returned
     /\ \/ Malformed(request.customer_id)
        \/ /\ HasKey(locals.customer_data.profile, "tier")
           /\ locals.customer_data.profile.tier \notin ValidTiers) =>
        result.status # "completed"

\* C20: when the profile store has no record for the customer id, data
\* collection does not fail: it yields a default profile (tier 'standard',
\* status 'active') and the workflow continues with that tier.
C20_MissingProfileDefaulted ==
    (Len(stages_run) >= 1 /\ stages_run[1].store = "missing") =>
        LET profile == locals.customer_data.profile
        IN  /\ HasKey(profile, "tier") /\ profile.tier = "standard"
            /\ HasKey(profile, "status") /\ profile.status = "active"

\* the step handlers do default the profile: a run on the default profile goes
\* through analysis, scored as a standard customer, and through reporting
C20_StepHandlersDefaultProfile ==
    (/\ Len(step_results) >= 1
     /\ step_results[1].step = "data_collection"
     /\ HasKey(step_results[1].data.profile, "name")
     /\ step_results[1].data.profile.name = "Unknown Customer") =>
        /\ step_results[1].status = "completed"
        /\ step_results[1].data.profile.tier = "standard"
        /\ step_results[1].data.profile.status = "active"
        /\ Len(step_results) = 3 =>
               /\ context.analysis.priority.factors[1] = "Standard customer"
               /\ ReportOutputs.internal_report.customer_info.tier = "standard"
               /\ step_results[3].status = "completed"

(***************************************************************************)
(* The confidences of the analysis (under Spec).                           *)
(***************************************************************************)
\* a quotient between 0 and 1, both included
InUnitInterval(x) == x[2] > 0 /\ 0 <= x[1] /\ x[1] <= x[2]

\* C24: the classification confidence, the score of every category, the sentiment
\* confidence and the overall confidence score of an analysis all lie in [0, 1].
C24_ConfidencesInUnitInterval ==
    Analyzed =>
        LET a == context.analysis
        IN  /\ InUnitInterval(a.issue_classification.confidence)
            /\ \A cat \in DOMAIN a.issue_classification.all_scores :
                   InUnitInterval(a.issue_classification.all_scores[cat])
            /\ InUnitInterval(a.sentiment.confidence)
            /\ InUnitInterval(a.confidence_score)

\* both ends of the interval: every token matches the winning category and is a
\* negative word, and another category matches no token
C24_Witness ==
    /\ Analyzed
    /\ Len(TokensOf(IssueText)) = 2
    /\ LET a == context.analysis
       IN  /\ a.issue_classification.confidence = <<2, 2>>
           /\ \E cat \in DOMAIN a.issue_classification.all_scores :
                  a.issue_classification.all_scores[cat][1] = 0
           /\ a.sentiment.confidence[1] = a.sentiment.confidence[2]
           /\ a.confidence_score[1] > 50

\* C28: assess_priority never returns 'low' for a premium or an enterprise
\* customer; 'low' is returned for score 1 only, which is reached only when the tier
\* is neither premium nor enterprise and the text has no urgency and no impact
\* keyword.
C28_LowOnlyForScore1 ==
    Analyzed =>
        LET pr == context.analysis.priority
        IN  /\ ProfileTier \in {"premium", "enterprise"} => pr.level # "low"
            /\ pr.level = "low" =>
                  /\ pr.score = 1
                  /\ ProfileTier \notin {"premium", "enterprise"}
                  /\ KeywordsOccurring(urgency_keywords, IssueText) = 0
                  /\ KeywordsOccurring(impact_keywords, IssueText) = 0

\* a standard customer and a text without urgency and impact keywords
C28_Witness ==
    /\ Analyzed
    /\ ProfileTier = "standard"
    /\ Len(TokensOf(IssueText)) > 0
    /\ context.analysis.priority.level = "low"
    /\ context.analysis.priority.score = 1

\* the least level of a premium customer: score 2, medium
C28_WitnessPremium ==
    /\ Analyzed
    /\ ProfileTier = "premium"
    /\ context.analysis.priority.score = 2
    /\ context.analysis.priority.level = "medium"

(***************************************************************************)
(* Further properties of the reporting stage (under SpecReporter).         *)
(***************************************************************************)
\* C26: the sentiment_adjusted flag of a response is true if and only if the
\* apology clause was prepended to the acknowledgment in that response's text.
C26_SentimentAdjustedIffApology ==
    Reported =>
        (ReportOutputs.customer_response.sentiment_adjusted
            <=> ApologyBeforeAcknowledgment(ResponseText))

\* C26, what the flag does report: that the sentiment is 'negative', whatever its
\* confidence, so it is also true of a response that carries no apology.
C26_SentimentAdjustedIffNegative ==
    Reported =>
        /\ ReportOutputs.customer_response.sentiment_adjusted
              <=> (HasKey(ReportSentiment, "sentiment")
                      /\ ReportSentiment.sentiment = "negative")
        /\ ApologyBeforeAcknowledgment(ResponseText)
              => ReportOutputs.customer_response.sentiment_adjusted

\* the three stages ran in order: collection, analysis, reporting
PipelineDone == Len(step_results) = 3

\* the SLA strings of the table and of the defaults
SlaStrings == {e[3] : e \in SlaTable}

\* the text commits to the SLA string: 'within <sla>' followed by ',' or '.'
CommitsTo(text, sla) ==
    \E c \in {",", "."} :
        contains(<<"w","i","t","h","i","n"," ">> \o text_of[sla] \o <<c>>, text)

\* C27: across analysis and reporting, the response's sla_commitment, the SLA
\* string embedded in the response text, the report's sla_target and
\* priority.sla_target are all the same string, the SLA table entry of the
\* assessed priority level and the profile's tier (for a tier the table does not
\* list, the '72 hours' that get_sla_target returns for it).
C27_SlaConsistent ==
    PipelineDone =>
        LET pr == context.analysis.priority
            sla == pr.sla_target
        IN  /\ ReportOutputs.customer_response.sla_commitment = sla
            /\ CommitsTo(ResponseText, sla)
            /\ \A other \in SlaStrings \ {sla} : ~CommitsTo(ResponseText, other)
            /\ ReportOutputs.internal_report.resolution_info.sla_target = sla
            /\ InSlaTable(pr.level, ProfileTier) => <<pr.level, ProfileTier, sla>> \in SlaTable
            /\ ~InSlaTable(pr.level, ProfileTier) => sla = "72 hours"

\* a critical issue of an enterprise customer: '1 hour' in all four places
C27_Witness ==
    /\ PipelineDone
    /\ context.analysis.priority.level = "critical"
    /\ ProfileTier = "enterprise"
    /\ context.analysis.priority.sla_target = "1 hour"
    /\ ReportOutputs.customer_response.sla_commitment = "1 hour"
    /\ ReportOutputs.internal_report.resolution_info.sla_target = "1 hour"
    /\ CommitsTo(ResponseText, "1 hour")

IsSend(effect) == effect.call \in NotificationCalls

\* the notifications that were attempted, in the order of the attempts
SendsAttempted == SelectSeq(effects, IsSend)

\* the notifications due for a priority level and a category, in the order in
\* which send_notifications goes through them
SendsDue(level, category) ==
    (IF level \in {"critical", "high"} THEN <<"send_management_notification">> ELSE <<>>)
    \o (IF category = "technical" THEN <<"send_technical_notification">> ELSE <<>>)
    \o <<"send_customer_confirmation">>

TypesOf(entries) == [i \in 1..Len(entries) |-> entries[i].type]

\* C29: send_notifications attempts the management alert if and only if the
\* priority level is critical or high, the technical-team alert if and only if the
\* category is 'technical', and the customer confirmation always, in that order;
\* every attempted notification ends in exactly one of 'sent' and 'failed', and
\* a failed notification does not prevent the later ones from being attempted.
C29_Notifications ==
    Reported =>
        LET due == SendsDue(ReportLevel, ReportCategory)
            sent == ReportOutputs.notifications.sent
            failed == ReportOutputs.notifications.failed
            ok == {i \in 1..Len(due) : SendsAttempted[i].outcome = "ok"}
        IN  /\ Len(SendsAttempted) = Len(due)
            /\ \A i \in 1..Len(due) : SendsAttempted[i].call = due[i]
            /\ Len(sent) + Len(failed) = Len(due)
            /\ \A i \in 1..Len(due) :
                   LET type == TypeOfSend[due[i]]
                       in_sent == {j \in 1..Len(sent) : sent[j].type = type}
                       in_failed == {j \in 1..Len(failed) : failed[j].type = type}
                   IN  IF i \in ok
                       THEN Cardinality(in_sent) = 1 /\ in_failed = {}
                       ELSE in_sent = {} /\ Cardinality(in_failed) = 1
            /\ TypesOf(sent) = [j \in 1..Len(sent) |->
                   TypeOfSend[SelectSeq(SendsAttempted, LAMBDA e : e.outcome = "ok")[j].call]]
            /\ TypesOf(failed) = [j \in 1..Len(failed) |->
                   TypeOfSend[SelectSeq(SendsAttempted,
                                        LAMBDA e : e.outcome = "exception")[j].call]]

\* a high-priority technical issue whose management alert fails: the two later
\* notifications are attempted and sent
C29_Witness ==
    /\ Reported
    /\ ReportLevel = "high"
    /\ ReportCategory = "technical"
    /\ Len(SendsAttempted) = 3
    /\ SendsAttempted[1].outcome = "exception"
    /\ TypesOf(ReportOutputs.notifications.failed) = <<"management_alert">>
    /\ TypesOf(ReportOutputs.notifications.sent)
           = <<"technical_team_alert", "customer_confirmation">>

\* no token of the text matches a keyword of any category
NoCategoryMatch(text) ==
    LET m == CategoryMatches(text)
    IN  \A cat \in DOMAIN m : m[cat] = 0

\* the text is rendered from the product template: its greeting, acknowledgment
\* and action, and its next steps up to the SLA string
RenderedFromProduct(text) ==
    /\ contains(response_templates.product.greeting, text)
    /\ contains(response_templates.product.acknowledgment, text)
    /\ contains(response_templates.product.action, text)
    /\ contains(<<"p","r","o","v","i","d","e"," ","y","o","u"," ","w","i","t","h"," ","d","e","t",
                  "a","i","l","e","d"," ","g","u","i","d","a","n","c","e"," ","w","i","t","h","i",
                  "n"," ">>, text)

\* C30: when no token of the issue text matches a keyword of any category (the
\* empty text included), classify_issue returns 'billing' with confidence 0.0 and
\* not 'general'; and a response for the classified category 'general' is rendered
\* from the product template.
C30_NoMatchIsBillingAndGeneralIsProduct ==
    /\ (HasKey(context, "analysis") /\ NoCategoryMatch(IssueText)) =>
          /\ context.analysis.issue_classification.primary_category = "billing"
          /\ context.analysis.issue_classification.confidence[1] = 0
          /\ Reported =>
                /\ ReportOutputs.customer_response.category = "billing"
                /\ contains(BillingGreeting, ResponseText)
    /\ (Reported /\ ReportCategory = "general") =>
          /\ "general" \notin DOMAIN response_templates
          /\ ReportOutputs.customer_response.category = "general"
          /\ RenderedFromProduct(ResponseText)

\* the empty text, classified and answered as a billing inquiry
C30_Witness ==
    /\ PipelineDone
    /\ IssueText = <<>>
    /\ context.analysis.issue_classification.primary_category = "billing"
    /\ context.analysis.issue_classification.confidence = <<0, 1>>
    /\ contains(BillingGreeting, ResponseText)

\* 'help', classified as 'general' and answered from the product template
C30_WitnessGeneral ==
    /\ PipelineDone
    /\ context.analysis.issue_classification.primary_category = "general"
    /\ ReportOutputs.customer_response.category = "general"
    /\ RenderedFromProduct(ResponseText)

\* the customer data of the context, as the collection stage left it
CollectedData == IF HasKey(context, "data") THEN context.data ELSE EmptyDict

\* a step of the analysis or of the reporting stage
AnalysisOrReportingStep ==
    /\ Len(step_results') = Len(step_results) + 1
    /\ step_results'[Len(step_results')].step \in {"analysis", "reporting"}

\* C25: the analysis and the reporting stage leave the collected customer data
\* (profile, history, preferences) unchanged.
C25_CollectedDataUnchanged ==
    [][AnalysisOrReportingStep => CollectedData' = CollectedData]_vars

\* after all three stages the context still holds what the collector returned,
\* for a premium customer whose solution and response were customised
C25_Witness ==
    /\ PipelineDone
    /\ context.data = step_results[1].data
    /\ DOMAIN context.data = {"profile", "history", "preferences"}
    /\ ProfileTier = "premium"
    /\ Len(context.data.history) > 0
    /\ context.analysis.recommended_solution.solution_template.immediate_actions[1] = Assign
    /\ StartsWith(PremiumSalutation, ResponseText)

(***************************************************************************)
(* Properties of retry_with_backoff (under SpecRetry).                     *)
(***************************************************************************)
\* the positions of the calls of func and of the sleeps in the history
CallsOfFunc == {i \in 1..Len(retry.history) : retry.history[i].event = "call"}
Sleeps == {i \in 1..Len(retry.history) : retry.history[i].event = "sleep"}

RetryEnded == retry.pc \in {"returned", "raised"}

\* C23: the retry wrapper calls func at most max_attempts times, stops at the
\* first call that succeeds and returns its result, waits
\* backoff_multiplier ** attempt only between a failed attempt and the next one
\* (never after the last), and raises the exception of the last call when all
\* max_attempts calls fail.
C23_RetryWithBackoff ==
    LET h == retry.history
    IN  /\ Cardinality(CallsOfFunc) <= retry.max_attempts
        /\ \A i \in CallsOfFunc :
               /\ h[i].attempt = Cardinality({j \in CallsOfFunc : j < i})
               /\ h[i].outcome = "ok" =>
                      /\ i = Len(h)
                      /\ retry.pc = "returned"
                      /\ retry.returned = [attempt |-> h[i].attempt]
               /\ i < Len(h) => h[i + 1].event = "sleep"
        /\ retry.pc = "returned" => Len(h) \in CallsOfFunc /\ h[Len(h)].outcome = "ok"
        /\ \A i \in Sleeps :
               /\ i - 1 \in CallsOfFunc
               /\ h[i - 1].outcome \in Exceptions
               /\ h[i - 1].attempt = h[i].attempt
               /\ h[i].seconds = power(retry.backoff_multiplier, h[i].attempt)
               /\ h[i].attempt + 1 < retry.max_attempts
               /\ IF i < Len(h)
                  THEN h[i + 1].event = "call" /\ h[i + 1].attempt = h[i].attempt + 1
                  ELSE retry.pc = "call"
        /\ (/\ RetryEnded
            /\ retry.max_attempts > 0
            /\ Cardinality(CallsOfFunc) = retry.max_attempts
            /\ \A i \in CallsOfFunc : h[i].outcome \in Exceptions)
           => /\ retry.pc = "raised"
              /\ h[Len(h)].event = "call"
              /\ retry.raised = [exception |-> h[Len(h)].outcome,
                                 attempt |-> retry.max_attempts - 1]

\* three failed attempts with waits of 1 and 2 seconds between them, none after
\* the third, whose exception is raised
C23_Witness ==
    /\ retry.pc = "raised"
    /\ retry.max_attempts = 3
    /\ retry.backoff_multiplier = 2
    /\ Len(retry.history) = 5
    /\ [i \in 1..5 |-> retry.history[i].event] = <<"call", "sleep", "call", "sleep", "call">>
    /\ retry.history[2].seconds = 1
    /\ retry.history[4].seconds = 2
    /\ retry.history[1].outcome = "ConnectionError"
    /\ retry.history[5].outcome = "ValueError"
    /\ retry.raised = [exception |-> "ValueError", attempt |-> 2]

\* a success at the second attempt ends the calls
C23_WitnessSuccess ==
    /\ retry.pc = "returned"
    /\ retry.max_attempts = 3
    /\ Len(retry.history) = 3
    /\ retry.history[3].outcome = "ok"
    /\ retry.returned = [attempt |-> 1]

(***************************************************************************)
(* Properties of the cache helpers (under SpecCache).                      *)
(***************************************************************************)
CacheCalled == DOMAIN cache_call # {}

\* the call found no cache: no endpoint is configured, or the first connection
\* of the manager did not answer the ping
CacheUnavailable ==
    \/ cache_call.before.endpoint = None
    \/ ~cache_call.before.connected /\ cache_call.ping_outcome # "ok"

\* the command of the call failed: the server did not answer it, or refused it
CacheCommandFailed ==
    \/ cache_call.outcome # "ok"
    \/ cache_call.function = "cache_set" /\ cache_call.ttl <= 0

C22_WitnessWritten ==
    /\ CacheCalled
    /\ cache_call.function = "cache_set"
    /\ cache_call.returned = TRUE
    /\ cache_call.value = "{'a': 1}"
    /\ redis_server[cache_call.key] = [value |-> "{\n  \"a\": 1\n}", ttl |-> 3600]

(***************************************************************************)
(* Properties of runs in progress at the same time (under SpecConcurrent). *)
(***************************************************************************)
\* the request a run was started with
RequestOf(r) ==
    [customer_id |-> ConcurrentCustomers[r],
     issue_description |-> runs[r].context.issue_description]

\* what the run produces when it is the only run: the outputs of the three
\* handlers executed one after the other, or the dict process_customer_request
\* returns
AloneResults(r) ==
    IF runs[r].workflow = "handlers"
    THEN LET collected == DataCollectorAgent_execute(
                              RequestOf(r), concurrent_profile_outcome(runs[r].tier),
                              "empty", "missing")
             collected_context == [data |-> collected.data] @@ RequestOf(r)
             analyzed == AnalyzerAgent_execute(collected_context)
             analyzed_context == [analysis |-> analyzed.analysis] @@ collected_context
             reported == ReporterAgent_execute(analyzed_context,
                                               concurrent_reporter_outcomes).returned
         IN  <<collected, analyzed, reported>>
    ELSE LET customer_data == collect_customer_data(
                                  ConcurrentCustomers[r],
                                  concurrent_profile_outcome(runs[r].tier), "miss")
             analysis == analyze_customer_issue(customer_data,
                                                RequestOf(r).issue_description)
         IN  <<[customer_id |-> ConcurrentCustomers[r],
                status |-> "completed",
                response |-> Coordinator_generate_customer_response(analysis),
                analysis |-> analysis]>>

\* the context of a run holds its own request and what its own handlers returned
OwnContext(r) ==
    LET results == runs[r].step_results
        context_of_run == runs[r].context
    IN  /\ context_of_run.customer_id = ConcurrentCustomers[r]
        /\ HasKey(context_of_run, "data") =>
              Len(results) >= 1 /\ context_of_run.data = results[1].data
        /\ HasKey(context_of_run, "analysis") =>
              Len(results) >= 2 /\ context_of_run.analysis = results[2].analysis

\* C21: when two workflow runs for different requests are interleaved at any of
\* their suspension points, each run's analysis and response are exactly those it
\* produces when run alone; no run reads or writes the other's context, template
\* dictionaries or accumulated step outputs.
C21_RunsAreIsolated ==
    /\ \A r \in DOMAIN runs :
          /\ OwnContext(r)
          /\ runs[r].step_results # <<>> =>
                LET alone == AloneResults(r)
                IN  /\ Len(runs[r].step_results) <= Len(alone)
                    /\ runs[r].step_results = SubSeq(alone, 1, Len(runs[r].step_results))
    /\ \A object \in DOMAIN heap :
          /\ object.run \in DOMAIN runs
          /\ heap[object].used_by = {object.run}

\* two premium customers with the same billing request, both passed through the
\* step handlers, the second resumed between the awaits of the first: each
\* response has the salutation once and each solution the extra action once
C21_Witness ==
    /\ DOMAIN runs = ConcurrentRunIds
    /\ \A r \in ConcurrentRunIds :
          /\ runs[r].workflow = "handlers"
          /\ runs[r].tier = "premium"
          /\ runs[r].context.issue_description = Scenario
          /\ runs[r].pc = "done"
          /\ Len(runs[r].step_results) = 3
          /\ StartsWith(PremiumSalutation \o <<" ">> \o BillingGreeting,
                        runs[r].step_results[3].outputs.customer_response.response_text)
          /\ Occurrences(runs[r].step_results[2].analysis.recommended_solution
                             .solution_template.immediate_actions, Assign) = 1
    /\ Cardinality(DOMAIN heap) = 4

====
